---- MODULE Spec2Model ----
(***************************************************************************)
(* A model of instant-distance: the HNSW index of src/instant-distance.    *)
(*                                                                         *)
(* Hnsw::new (lib.rs) builds the layered neighbour array one insertion at  *)
(* a time, Hnsw::search descends it with a caller-owned Search scratch,    *)
(* and HnswMap pairs the index with the caller's values.  Points live on a *)
(* line of integer coordinates; the distance is the absolute difference.   *)
(* PointIds, rows and the flat neighbour array are 0-based as in the       *)
(* source; the Vecs of the Search scratch are sequences.                   *)
(***************************************************************************)
EXTENDS Integers, Sequences, FiniteSets, TLC

VARIABLES
    pc,             \* "new" | "building" | "ready": where Hnsw::new / HnswMap::new stands
    points,         \* the caller's points, by original index 0..n-1
    values,         \* the caller's values, by original index 0..n-1
    builder,        \* the Builder handed to build
    storage,        \* Hnsw.storage: the points by PointId
    out,            \* the remap vector returned by Hnsw::new: original index -> PointId
    meta,           \* Hnsw.meta: the LayerMeta records, layer 0 first
    neighbors,      \* Hnsw.neighbors: the flat neighbour array
    ef_search,      \* Hnsw.ef_search
    map_values,     \* HnswMap.values: the values by PointId
    layer,          \* the layer the construction loop of Hnsw::new is at
    next,           \* the position in layer_assignments the loop inserts next
    layer_assignments, \* the (layer, pid) of every point, in PointId order
    pool,           \* SearchPool.pool: the free (search, insertion) pairs
    search,         \* the caller's Search scratch
    last,           \* the latest call of HnswMap::search on the scratch, or NoCall
    queries,        \* the searches callers run at the same time, each on a scratch of its own
    workers,        \* the threads of the parallel for_each, each in its call of the closure
    taken,          \* the PointIds whose closure of the parallel for_each has started
    applied         \* the latest method applied to the scratch on its own, with what it was given

vars == <<pc, points, values, builder, storage, out, meta, neighbors, ef_search,
          map_values, layer, next, layer_assignments, pool, search, last, queries,
          workers, taken,
                   applied>>

-----------------------------------------------------------------------------
(* Bounds of the model *)

\* The parameter M of the paper (const M, 32 in the source), scaled down so
\* that rows of 2M slots overflow and several layers arise with a few points.
M == 1

\* The largest number of points handed to build.
MaxN == 4

\* The largest coordinate of a point or a query.
MaxCoord == 2

\* The seeds 0..MaxSeed of Builder::seed.
MaxSeed == 1

-----------------------------------------------------------------------------
(* Program constants *)

\* PointId(u32::MAX), the empty slot: the largest integer of TLC stands for the
\* largest u32.
INVALID == 2147483647

DefaultEf == 100

\* 1.0 / ln(32), the default of Builder.ml, as the ratio DefaultMlNum / DefaultMlDen
DefaultMlNum == 28854

DefaultMlDen == 100000

-----------------------------------------------------------------------------
(* Small helpers *)

Min(a, b) == IF a < b THEN a ELSE b

Max(a, b) == IF a > b THEN a ELSE b

Abs(x) == IF x < 0 THEN 0 - x ELSE x

\* The set of elements of a sequence.
Elems(s) == {s[i] : i \in 1..Len(s)}

\* Vec::insert(idx, x), idx 0-based.
VecInsert(s, idx, x) == SubSeq(s, 1, idx) \o <<x>> \o SubSeq(s, idx + 1, Len(s))

\* A truncate that keeps every element.
Truncate_keeps(s, len) == s

\* Vec::truncate(len).
Truncate(s, len) == IF Len(s) > len THEN SubSeq(s, 1, len) ELSE s

\* A 0-based vector from a sequence, and back.
ToVec(s) == [i \in 0..(Len(s) - 1) |-> s[i + 1]]

VecLen(v) == Cardinality(DOMAIN v)

\* An emptiness test that never holds.
is_empty_never(v) == FALSE

\* Vec::is_empty
is_empty(v) == VecLen(v) = 0

ToSeq(v) == [i \in 1..VecLen(v) |-> v[i - 1]]

-----------------------------------------------------------------------------
(* Points, candidates and their order *)

\* A distance that keeps the sign of the difference.
distance_signed(a, b) == a - b

\* Point::distance: points are integer coordinates on a line.
distance(a, b) == Abs(a - b)

\* Candidate { distance, pid }
Candidate(d, p) == [distance |-> d, pid |-> p]

\* An order of Candidate by distance alone: equal distances compare Equal.
cmp_distance_only(a, b) ==
    IF a.distance < b.distance THEN -1
    ELSE IF a.distance > b.distance THEN 1
    ELSE 0

\* The derived Ord of Candidate: by distance, then by PointId. -1, 0, 1 stand
\* for Ordering::Less, Equal, Greater.
cmp(a, b) ==
    IF a.distance < b.distance THEN -1
    ELSE IF a.distance > b.distance THEN 1
    ELSE IF a.pid < b.pid THEN -1
    ELSE IF a.pid > b.pid THEN 1
    ELSE 0

\* PointId::is_valid
is_valid(pid) == pid # INVALID

\* slice::binary_search_by over the orderings ords[i] the closure returns for
\* the elements: Ok(idx) or Err(idx), idx 0-based.
RECURSIVE bsearch_loop(_, _, _, _)
bsearch_loop(ords, left, right, size) ==
    IF left < right
    THEN LET mid == left + (size \div 2)
             c   == ords[mid + 1]
         IN  IF c = -1 THEN bsearch_loop(ords, mid + 1, right, right - (mid + 1))
             ELSE IF c = 1 THEN bsearch_loop(ords, left, mid, mid - left)
             ELSE [ok |-> TRUE, idx |-> mid]
    ELSE [ok |-> FALSE, idx |-> left]

binary_search_by(ords) == bsearch_loop(ords, 0, Len(ords), Len(ords))

\* Vec<Candidate>::binary_search(&new)
binary_search(vec, new) == binary_search_by([i \in 1..Len(vec) |-> cmp(vec[i], new)])

\* Vec::sort_unstable on candidates: their order is total, so the result is
\* the one sorted sequence.
RECURSIVE sort_unstable(_)
sort_unstable(vec) ==
    IF vec = <<>> THEN <<>>
    ELSE LET rest == sort_unstable(Tail(vec))
             k    == Cardinality({i \in 1..Len(rest) : cmp(rest[i], Head(vec)) = -1})
         IN  VecInsert(rest, k, Head(vec))

-----------------------------------------------------------------------------
(* Meta: the layout of the layers (contiguous_types.rs) *)

\* (num as f32 * ml) as usize, ml the ratio ml.num / ml.den
Scale(num, ml) == (num * ml.num) \div ml.den

RECURSIVE meta_loop(_, _, _, _)
meta_loop(ml, num, inner, nbrs) ==
    LET nxt0 == Scale(num, ml)
        nxt  == IF nxt0 < M THEN 0 ELSE nxt0
        end  == nbrs + num * M * (IF Len(inner) = 0 THEN 2 ELSE 1)
        rec  == [max |-> num - nxt, total |-> num, start |-> nbrs, end |-> end]
    IN  IF nxt = 0 THEN Append(inner, rec)
        ELSE meta_loop(ml, nxt, Append(inner, rec), end)

\* Records of Meta::new in which every layer above layer 0 ends one row
\* later than its rows reach.
Meta_new_gapped(ml, num) ==
    LET v == ToVec(meta_loop(ml, num, <<>>, 0))
    IN  [l \in DOMAIN v |-> IF l = 0 THEN v[l] ELSE [v[l] EXCEPT !.end = @ + M]]

\* Meta::new(ml, num): the records as a 0-based vector, layer 0 first.
Meta_new(ml, num) == ToVec(meta_loop(ml, num, <<>>, 0))

\* Meta::default()
Meta_default == ToVec(<<>>)

\* Meta::len
Meta_len(m) == VecLen(m)

\* Meta::descending as a sequence of LayerIds, highest first.
descending(m) == [i \in 1..Meta_len(m) |-> Meta_len(m) - i]

\* A range of points that begins at PointId 0 on the top layer.
Meta_points_from_zero(m, l) ==
    [start |-> m[l].total - m[l].max, end |-> m[l].total]

\* Meta::points(layer): the half-open range start..end of the points inserted at layer.
Meta_points(m, l) ==
    [start |-> Max(m[l].total - m[l].max, 1), end |-> m[l].total]

\* Meta::neighbors
Meta_neighbors(m) == m[Meta_len(m) - 1].end

\* Meta::next_lower(cur): Some((LayerId, total)) as a record, None as NoLayer.
NoLayer == [layer |-> -1, total |-> -1]

\* A next_lower that reports one point less than the layer holds.
next_lower_short(m, cur) ==
    LET idx == IF cur = NoLayer THEN Meta_len(m) - 1 ELSE cur.layer - 1
    IN  IF idx \in DOMAIN m THEN [layer |-> idx, total |-> m[idx].total - 1] ELSE NoLayer

next_lower(m, cur) ==
    LET idx == IF cur = NoLayer THEN Meta_len(m) - 1 ELSE cur.layer - 1
    IN  IF idx \in DOMAIN m THEN [layer |-> idx, total |-> m[idx].total] ELSE NoLayer

\* LayerId::is_zero
is_zero(l) == l = 0

\* A view that shows the rows of layer 0 whatever the layer.
Meta_layer_zero(m, l) == [start |-> 0, stride |-> M * 2]

\* Meta::layer / layers_mut / zero_nodes: the view of one layer in the flat
\* array, its offset and its stride.
Meta_layer(m, l) == [start |-> m[l].start, stride |-> IF is_zero(l) THEN M * 2 ELSE M]

\* Meta::layers_mut: the slices cut off the array one after the other by
\* split_at_mut, each with the place pos it begins at, its length and its
\* stride, layer 0 first.
RECURSIVE layers_mut_loop(_, _, _, _)
layers_mut_loop(m, l, pos, layers) ==
    IF l >= Meta_len(m) THEN layers
    ELSE LET len == m[l].end - m[l].start
         IN  layers_mut_loop(m, l + 1, pos + len,
                 Append(layers, [start |-> pos, len |-> len,
                                 stride |-> IF pos = 0 THEN M * 2 ELSE M]))

layers_mut(m) == ToVec(layers_mut_loop(m, 0, 0, <<>>))

\* The row of pid in a layer view: the stride slots from start + pid * stride.
Row(nbrs, view, pid) ==
    [i \in 1..view.stride |-> nbrs[view.start + pid * view.stride + (i - 1)]]

\* NearestIter: the entries of a row up to the first invalid one.
RECURSIVE take_valid(_)
take_valid(row) ==
    IF row = <<>> \/ ~is_valid(Head(row)) THEN <<>>
    ELSE <<Head(row)>> \o take_valid(Tail(row))

\* Layer::nearest_iter(pid)
nearest_iter(nbrs, view, pid) == take_valid(Row(nbrs, view, pid))

\* Iterator::take(links)
Take(s, links) == SubSeq(s, 1, Min(Len(s), links))

-----------------------------------------------------------------------------
(* Search: the scratch of one search (lib.rs) *)

\* Search::default(). visited is the set of the PointIds inserted into
\* Visited; candidates is the BinaryHeap<Reverse<Candidate>>, kept as the
\* sequence of its elements nearest first; unreachable records that push
\* ran into its unreachable!() arm.
Search_default ==
    [visited |-> {}, candidates |-> <<>>, nearest |-> <<>>, working |-> <<>>,
     discarded |-> <<>>, ef |-> 1, unreachable |-> FALSE]

\* Search::new(capacity)
Search_new == Search_default

\* Search::reset: everything but ef is cleared.
reset(s) ==
    [s EXCEPT !.visited = {}, !.candidates = <<>>, !.nearest = <<>>,
              !.working = <<>>, !.discarded = <<>>]

\* BinaryHeap::push
heap_push(heap, c) ==
    VecInsert(heap, Cardinality({i \in 1..Len(heap) : cmp(heap[i], c) <= 0}), c)

\* A push that appends the new candidate to nearest instead of inserting it
\* at the index the binary search finds.
push_append(s, pid, point, pts) ==
    IF pid \in s.visited THEN s
    ELSE LET s1  == [s EXCEPT !.visited = @ \cup {pid}]
             new == Candidate(distance(point, pts[pid]), pid)
             pos == binary_search(s1.nearest, new)
         IN  IF pos.ok THEN [s1 EXCEPT !.unreachable = TRUE]
             ELSE IF pos.idx < s1.ef
                  THEN [s1 EXCEPT !.nearest = Append(@, new),
                                  !.candidates = heap_push(@, new)]
                  ELSE s1

\* A push that takes the candidate when nearest has fewer than ef elements
\* or the candidate is closer than the last element.
push_when_closer(s, pid, point, pts) ==
    IF pid \in s.visited THEN s
    ELSE LET s1  == [s EXCEPT !.visited = @ \cup {pid}]
             new == Candidate(distance(point, pts[pid]), pid)
             pos == binary_search(s1.nearest, new)
         IN  IF pos.ok THEN [s1 EXCEPT !.unreachable = TRUE]
             ELSE IF Len(s1.nearest) < s1.ef
                     \/ (s1.nearest # <<>>
                         /\ new.distance < s1.nearest[Len(s1.nearest)].distance)
                  THEN [s1 EXCEPT !.nearest = VecInsert(@, pos.idx, new),
                                  !.candidates = heap_push(@, new)]
                  ELSE s1

\* Search::push(pid, point, storage)
push(s, pid, point, pts) ==
    IF pid \in s.visited THEN s
    ELSE LET s1  == [s EXCEPT !.visited = @ \cup {pid}]
             new == Candidate(distance(point, pts[pid]), pid)
             pos == binary_search(s1.nearest, new)
         IN  IF pos.ok THEN [s1 EXCEPT !.unreachable = TRUE]
             ELSE IF pos.idx < s1.ef
                  THEN [s1 EXCEPT !.nearest = VecInsert(@, pos.idx, new),
                                  !.candidates = heap_push(@, new)]
                  ELSE s1

\* The for loop of Search::search and of add_neighbor_heuristic: push each pid.
RECURSIVE push_all(_, _, _, _)
push_all(s, pids, point, pts) ==
    IF pids = <<>> THEN s
    ELSE push_all(push(s, Head(pids), point, pts), Tail(pids), point, pts)

\* A search loop that also stops at a candidate as far as the furthest result.
RECURSIVE search_layer_ge(_, _, _, _, _, _)
search_layer_ge(s, point, nbrs, view, pts, links) ==
    IF s.candidates = <<>> THEN s
    ELSE LET candidate == Head(s.candidates)
             s1 == [s EXCEPT !.candidates = Tail(@)]
         IN  IF s1.nearest # <<>>
                /\ candidate.distance >= s1.nearest[Len(s1.nearest)].distance
             THEN s1
             ELSE LET s2 == push_all(s1, Take(nearest_iter(nbrs, view, candidate.pid), links),
                                     point, pts)
                  IN  search_layer_ge([s2 EXCEPT !.nearest = Truncate(@, s2.ef)],
                                      point, nbrs, view, pts, links)

\* Search::search(point, layer, points, links): the loop of algorithm 2;
\* nbrs and view are the layer.
RECURSIVE search_layer(_, _, _, _, _, _)
search_layer(s, point, nbrs, view, pts, links) ==
    IF s.candidates = <<>> THEN s
    ELSE LET candidate == Head(s.candidates)
             s1 == [s EXCEPT !.candidates = Tail(@)]
         IN  IF s1.nearest # <<>>
                /\ candidate.distance > s1.nearest[Len(s1.nearest)].distance
             THEN s1
             ELSE LET s2 == push_all(s1, Take(nearest_iter(nbrs, view, candidate.pid), links),
                                     point, pts)
                  IN  search_layer([s2 EXCEPT !.nearest = Truncate(@, s2.ef)],
                                   point, nbrs, view, pts, links)

\* A cull that forgets what was visited.
cull_forgets(s) == [s EXCEPT !.candidates = s.nearest, !.visited = {}]

\* Search::cull
cull(s) ==
    [s EXCEPT !.candidates = s.nearest,
              !.visited = {s.nearest[i].pid : i \in 1..Len(s.nearest)}]

\* The first loop of select_heuristic: nearest into working, with the hops of
\* each candidate when extend_candidates is set.
RECURSIVE extend_hops(_, _, _, _)
extend_hops(s, hops, point, pts) ==
    IF hops = <<>> THEN s
    ELSE LET hop == Head(hops)
         IN  IF hop \in s.visited THEN extend_hops(s, Tail(hops), point, pts)
             ELSE extend_hops(
                      [s EXCEPT !.visited = @ \cup {hop},
                                !.working = Append(@, Candidate(distance(point, pts[hop]), hop))],
                      Tail(hops), point, pts)

RECURSIVE fill_working(_, _, _, _, _, _, _)
fill_working(s, i, point, nbrs, view, pts, params) ==
    IF i > Len(s.nearest) THEN s
    ELSE LET candidate == s.nearest[i]
             s1 == [s EXCEPT !.working = Append(@, candidate)]
             s2 == IF params.extend_candidates
                   THEN extend_hops(s1, nearest_iter(nbrs, view, candidate.pid), point, pts)
                   ELSE s1
         IN  fill_working(s2, i + 1, point, nbrs, view, pts, params)

\* A second loop that admits every candidate.
RECURSIVE admit_all(_, _, _)
admit_all(s, work, pts) ==
    IF work = <<>> \/ Len(s.nearest) >= M * 2 THEN s
    ELSE admit_all([s EXCEPT !.nearest = Append(@, Head(work))], Tail(work), pts)

\* The second loop of select_heuristic: a candidate closer to an admitted
\* result than to the query is discarded.
RECURSIVE admit(_, _, _)
admit(s, work, pts) ==
    IF work = <<>> \/ Len(s.nearest) >= M * 2 THEN s
    ELSE LET candidate == Head(work)
             nearest == ~ \E i \in 1..Len(s.nearest) :
                             distance(pts[candidate.pid], pts[s.nearest[i].pid])
                                 < candidate.distance
         IN  admit(IF nearest THEN [s EXCEPT !.nearest = Append(@, candidate)]
                              ELSE [s EXCEPT !.discarded = Append(@, candidate)],
                   Tail(work), pts)

\* A keep_pruned loop that appends nothing.
keep_none(nearest, disc) == nearest

\* The keep_pruned loop of select_heuristic; discarded.drain(..) empties it.
RECURSIVE keep(_, _)
keep(nearest, disc) ==
    IF disc = <<>> \/ Len(nearest) >= M * 2 THEN nearest
    ELSE keep(Append(nearest, Head(disc)), Tail(disc))

\* Search::select_heuristic(point, layer, storage, params): the selection is
\* the nearest of the result.
select_heuristic(s, point, nbrs, view, pts, params) ==
    LET s1 == fill_working([s EXCEPT !.working = <<>>], 1, point, nbrs, view, pts, params)
        w  == IF params.extend_candidates THEN sort_unstable(s1.working) ELSE s1.working
        s2 == admit([s1 EXCEPT !.nearest = <<>>, !.discarded = <<>>, !.working = <<>>], w, pts)
    IN  IF params.keep_pruned
        THEN [s2 EXCEPT !.nearest = keep(s2.nearest, s2.discarded), !.discarded = <<>>]
        ELSE s2

\* Search::add_neighbor_heuristic(new, current, layer, point, storage, params)
add_neighbor_heuristic(s, new, current, nbrs, view, point, pts, params) ==
    select_heuristic(push_all(push(reset(s), new, point, pts), current, point, pts),
                     point, nbrs, view, pts, params)

\* A simple selection that lists every candidate twice.
select_simple_twice(s) == s.nearest \o s.nearest

\* Search::select_simple
select_simple(s) == s.nearest

\* Search::iter
Search_iter(s) == s.nearest

-----------------------------------------------------------------------------
(* ZeroNode: one row of layer 0 (contiguous_types.rs) *)

\* The loop of ZeroNode::rewrite over the slots of a row, iter the sequence of
\* the PointIds.
RECURSIVE rewrite_from(_, _, _)
rewrite_from(row, i, iter) ==
    IF i > Len(row) THEN row
    ELSE IF iter # <<>>
         THEN rewrite_from([row EXCEPT ![i] = Head(iter)], i + 1, Tail(iter))
         ELSE IF row[i] # INVALID
              THEN rewrite_from([row EXCEPT ![i] = INVALID], i + 1, iter)
              ELSE row

\* A rewrite that writes the items and leaves the slots after them as they
\* are.
rewrite_keeps_tail(row, iter) ==
    [i \in 1..Len(row) |-> IF i <= Len(iter) THEN iter[i] ELSE row[i]]

\* A rewrite that leaves every slot of the row invalid.
rewrite_clears(row, iter) == [i \in 1..Len(row) |-> INVALID]

\* ZeroNode::rewrite(iter)
rewrite(row, iter) == rewrite_from(row, 1, iter)

\* An insert that writes the slot and moves nothing.
ZeroNode_insert_overwrite(row, idx, pid) ==
    IF idx >= Len(row) THEN row ELSE [row EXCEPT ![idx + 1] = pid]

\* ZeroNode::insert(idx, pid), idx 0-based: copy_within(idx..end, idx + 1)
\* moves the slots idx..end-1 one place up.
ZeroNode_insert(row, idx, pid) ==
    IF idx >= Len(row) THEN row
    ELSE LET end == (M * 2) - 1
             shifted == IF is_valid(row[idx + 1])
                        THEN [i \in 1..Len(row) |->
                                 IF i - 1 > idx /\ i - 1 <= end THEN row[i - 1] ELSE row[i]]
                        ELSE row
         IN  [shifted EXCEPT ![idx + 1] = pid]

\* ZeroNode::set(idx, pid), idx 0-based
ZeroNode_set(row, idx, pid) == [row EXCEPT ![idx + 1] = pid]

\* A replacement that lands on the row after the one of pid.
SetRow_next(nbrs, view, pid, row) ==
    [k \in DOMAIN nbrs |->
        IF k >= view.start + (pid + 1) * view.stride /\ k < view.start + (pid + 2) * view.stride
        THEN row[k - (view.start + (pid + 1) * view.stride) + 1]
        ELSE nbrs[k]]

\* The flat array with the row of pid in a layer view replaced.
SetRow(nbrs, view, pid, row) ==
    [k \in DOMAIN nbrs |->
        IF k >= view.start + pid * view.stride /\ k < view.start + (pid + 1) * view.stride
        THEN row[k - (view.start + pid * view.stride) + 1]
        ELSE nbrs[k]]

-----------------------------------------------------------------------------
(* Construction::insert (lib.rs) *)

\* The PointIds of the candidates, each one too high.
Pids_off_by_one(cands) == [i \in 1..Len(cands) |-> cands[i].pid + 1]

\* The PointIds of a sequence of candidates.
Pids(cands) == [i \in 1..Len(cands) |-> cands[i].pid]

\* A descent of insert that hands 2M links to every search.
RECURSIVE insert_descend_wide(_, _, _, _, _, _, _, _)
insert_descend_wide(s, layers, point, l, m, nbrs, pts, efc) ==
    IF layers = <<>> THEN s
    ELSE LET cur == Head(layers)
             s1  == [s EXCEPT !.ef = IF cur <= l THEN efc ELSE 1]
         IN  IF cur > l
             THEN insert_descend_wide(
                      cull(search_layer(s1, point, nbrs, Meta_layer(m, cur), pts, M * 2)),
                      Tail(layers), point, l, m, nbrs, pts, efc)
             ELSE search_layer(s1, point, nbrs, Meta_layer(m, 0), pts, M * 2)

\* The descent of insert: for cur in meta.descending(), the layers above the
\* new node's layer with ef 1 and a cull, then layer 0 with ef_construction.
RECURSIVE insert_descend(_, _, _, _, _, _, _, _)
insert_descend(s, layers, point, l, m, nbrs, pts, efc) ==
    IF layers = <<>> THEN s
    ELSE LET cur == Head(layers)
             num == IF is_zero(l) THEN M * 2 ELSE M
             s1  == [s EXCEPT !.ef = IF cur <= l THEN efc ELSE 1]
         IN  IF cur > l
             THEN insert_descend(cull(search_layer(s1, point, nbrs, Meta_layer(m, cur), pts, num)),
                                 Tail(layers), point, l, m, nbrs, pts, efc)
             ELSE search_layer(s1, point, nbrs, Meta_layer(m, 0), pts, num)

\* The index binary_search_by finds in the row of the neighbour old for the
\* new node at the given distance (the closure of insert).
insert_index(row, dist, old, pts) ==
    binary_search_by([i \in 1..Len(row) |->
        IF is_valid(row[i])
        THEN LET d == distance(pts[old], pts[row[i]])
             IN  IF dist < d THEN -1 ELSE IF dist > d THEN 1 ELSE 0
        ELSE 1]).idx

\* Row locks that never make their holder wait: no row counts as read.
rows_read_none(s, params) == {}

\* The rows whose read lock select_heuristic takes: with extend_candidates,
\* the row of every candidate in nearest.
rows_read(s, params) ==
    IF params.extend_candidates THEN {s.nearest[i].pid : i \in 1..Len(s.nearest)} ELSE {}

\* The loop of insert over the neighbours found: st holds the neighbour
\* array, the insertion scratch and whether the thread blocked on the row of
\* new, whose write lock it holds since the first line of insert.
RECURSIVE insert_links(_, _, _, _, _, _)
insert_links(st, found, i, new, pts, heuristic) ==
    IF i > Len(found) \/ st.blocked THEN st
    ELSE LET candidate == found[i]
             pid  == candidate.pid
             zero == [start |-> 0, stride |-> M * 2]
         IN  IF pid = new THEN [st EXCEPT !.blocked = TRUE]
             ELSE IF heuristic.some
             THEN LET seeded == push_all(push(reset(st.insertion), new, pts[pid], pts),
                                         nearest_iter(st.neighbors, zero, pid), pts[pid], pts)
                      sel  == add_neighbor_heuristic(st.insertion, new,
                                  nearest_iter(st.neighbors, zero, pid),
                                  st.neighbors, zero, pts[pid], pts, heuristic)
                      row  == rewrite(Row(st.neighbors, zero, pid), Pids(sel.nearest))
                      n1   == SetRow(st.neighbors, zero, pid, row)
                      n2   == SetRow(n1, zero, new, ZeroNode_set(Row(n1, zero, new), i - 1, pid))
                  IN  IF new \in rows_read(seeded, heuristic)
                      THEN [st EXCEPT !.blocked = TRUE, !.insertion = seeded]
                      ELSE insert_links([st EXCEPT !.neighbors = n2, !.insertion = sel],
                                        found, i + 1, new, pts, heuristic)
             ELSE LET idx == insert_index(Row(st.neighbors, zero, pid), candidate.distance, pid, pts)
                      n1  == SetRow(st.neighbors, zero, pid,
                                    ZeroNode_insert(Row(st.neighbors, zero, pid), idx, new))
                      n2  == SetRow(n1, zero, new, ZeroNode_set(Row(n1, zero, new), i - 1, pid))
                  IN  insert_links([st EXCEPT !.neighbors = n2], found, i + 1, new, pts, heuristic)

\* Construction::insert(new, layer) with the (search, insertion) pair popped
\* from the pool: the neighbour array, the pair as pushed back, and whether
\* the thread blocked for ever on a row lock.
insert(new, l, pair, m, nbrs, pts, b) ==
    LET zero == [start |-> 0, stride |-> M * 2]
        insertion == [pair.insertion EXCEPT !.ef = b.ef_construction]
        point == pts[new]
        s0 == push(reset(pair.search), 0, point, pts)
        s1 == insert_descend(s0, descending(m), point, l, m, nbrs, pts, b.ef_construction)
        s2 == IF b.heuristic.some
              THEN select_heuristic(s1, point, nbrs, zero, pts, b.heuristic)
              ELSE s1
        found == IF b.heuristic.some THEN s2.nearest
                 ELSE Take(select_simple(s1), M * 2)
        start == [neighbors |-> nbrs, insertion |-> insertion,
                  blocked |-> b.heuristic.some /\ new \in rows_read(s1, b.heuristic)]
        st == insert_links(start, found, 1, new, pts, b.heuristic)
    IN  [neighbors |-> st.neighbors, search |-> s2, insertion |-> st.insertion,
         blocked |-> st.blocked, found |-> found]

\* SearchPool::pop
pool_pop(p) ==
    IF p = <<>> THEN [pair |-> [search |-> Search_new, insertion |-> Search_new], pool |-> p]
    ELSE [pair |-> p[Len(p)], pool |-> SubSeq(p, 1, Len(p) - 1)]

\* SearchPool::push
pool_push(p, pair) == Append(p, pair)

\* A copy that writes the layer l and every layer above it anew.
copy_from_zero_above(nbrs, m, l, end) ==
    [k \in DOMAIN nbrs |->
        IF k >= m[l].start
        THEN LET j == CHOOSE j \in l..(Meta_len(m) - 1) : k >= m[j].start /\ k < m[j].end
             IN  nbrs[((k - m[j].start) \div M) * (M * 2) + ((k - m[j].start) % M)]
        ELSE nbrs[k]]

\* A copy that takes the last stride slots of the layer-0 row instead of
\* the first.
copy_from_zero_tail(nbrs, m, l, end) ==
    LET view == Meta_layer(m, l)
        rows == Min(end, (m[l].end - m[l].start) \div view.stride)
    IN  [k \in DOMAIN nbrs |->
            IF k >= view.start /\ k < view.start + rows * view.stride
            THEN nbrs[((k - view.start) \div view.stride) * (M * 2)
                      + (M * 2 - view.stride) + ((k - view.start) % view.stride)]
            ELSE nbrs[k]]

\* LayerSliceMut::copy_from_zero(&zero[..end]) on layer l: each row of the
\* layer takes the first stride slots of the layer-0 row of the same PointId.
copy_from_zero(nbrs, m, l, end) ==
    LET view == Meta_layer(m, l)
        rows == Min(end, (m[l].end - m[l].start) \div view.stride)
    IN  [k \in DOMAIN nbrs |->
            IF k >= view.start /\ k < view.start + rows * view.stride
            THEN nbrs[((k - view.start) \div view.stride) * (M * 2)
                      + ((k - view.start) % view.stride)]
            ELSE nbrs[k]]

-----------------------------------------------------------------------------
(* Builder (lib.rs) *)

\* Heuristic::default() and the Option<Heuristic> of the Builder.
Heuristic_default == [some |-> TRUE, extend_candidates |-> FALSE, keep_pruned |-> TRUE]

Heuristic_none == [some |-> FALSE, extend_candidates |-> FALSE, keep_pruned |-> FALSE]

Heuristics ==
    {Heuristic_none}
        \cup {[some |-> TRUE, extend_candidates |-> e, keep_pruned |-> k] : e, k \in BOOLEAN}

\* Builder::default(), with the seed Builder::seed sets.
Builder_default(seed) ==
    [ef_search |-> DefaultEf, ef_construction |-> DefaultEf, heuristic |-> Heuristic_default,
     ml |-> [num |-> DefaultMlNum, den |-> DefaultMlDen], seed |-> seed]

\* The values handed to the setters: an ef up to the number of points.
EfValues == 0..MaxN

MlValues == {[num |-> 1, den |-> 2]}

\* One call of a setter: ef_search, ef_construction, select_heuristic or ml.
Builder_set(b) ==
    {[b EXCEPT !.ef_search = ef] : ef \in EfValues}
        \cup {[b EXCEPT !.ef_construction = ef] : ef \in EfValues}
        \cup {[b EXCEPT !.heuristic = h] : h \in Heuristics}
        \cup {[b EXCEPT !.ml = ml] : ml \in MlValues}

\* The builders a chain of at most k setter calls yields.
RECURSIVE Builders(_, _)
Builders(seed, k) ==
    IF k = 0 THEN {Builder_default(seed)}
    ELSE LET prev == Builders(seed, k - 1)
         IN  prev \cup UNION {Builder_set(b) : b \in prev}

-----------------------------------------------------------------------------
(* Hnsw::new: the storage in construction order *)

\* rng.gen_range(0..n) for the i-th point, i from 0: the stream of the keys a
\* seed yields is its digits in base n, so that every stream has a seed.
RECURSIVE Pow(_, _)
Pow(b, e) == IF e = 0 THEN 1 ELSE b * Pow(b, e - 1)

gen_range(seed, i, n) == (seed \div Pow(n, i)) % n

\* An order of the pairs by the key alone.
pair_less_by_key(a, b) == a.key < b.key

\* The pairs (PointId(key), i) of the shuffle, and the tuple order
\* sort_unstable uses: by key, then by original index.
pair_less(a, b) == a.key < b.key \/ (a.key = b.key /\ a.idx < b.idx)

\* shuffled after sort_unstable: the pairs are distinct, so the sorted order is unique.
shuffled(seed, n) ==
    LET pairs == [i \in 0..(n - 1) |-> [key |-> gen_range(seed, i, n), idx |-> i]]
        rank(i) == Cardinality({j \in 0..(n - 1) : pair_less(pairs[j], pairs[i])})
    IN  [k \in 0..(n - 1) |-> pairs[CHOOSE i \in 0..(n - 1) : rank(i) = k]]

\* A loop over shuffled that writes out at the sort key instead of the
\* original index.
RECURSIVE assign_by_key(_, _, _, _, _, _)
assign_by_key(st, i, sh, pts, m, n) ==
    IF i >= n THEN st
    ELSE LET pid == Len(st.new_nodes)
             at  == IF i = st.at_layer.total THEN next_lower(m, st.at_layer) ELSE st.at_layer
         IN  assign_by_key([new_points |-> Append(st.new_points, pts[sh[i].idx]),
                            new_nodes  |-> Append(st.new_nodes, [layer |-> at.layer, pid |-> pid]),
                            out        |-> [st.out EXCEPT ![sh[i].key] = pid],
                            at_layer   |-> at],
                           i + 1, sh, pts, m, n)

\* The loop over shuffled: the points by PointId, the (layer, pid) of each
\* and the remap vector out.
RECURSIVE assign(_, _, _, _, _, _)
assign(st, i, sh, pts, m, n) ==
    IF i >= n THEN st
    ELSE LET pid == Len(st.new_nodes)
             at  == IF i = st.at_layer.total THEN next_lower(m, st.at_layer) ELSE st.at_layer
         IN  assign([new_points |-> Append(st.new_points, pts[sh[i].idx]),
                     new_nodes  |-> Append(st.new_nodes, [layer |-> at.layer, pid |-> pid]),
                     out        |-> [st.out EXCEPT ![sh[i].idx] = pid],
                     at_layer   |-> at],
                    i + 1, sh, pts, m, n)

\* ContiguousStorage::new(points, &meta, builder): (storage, layer_assignments, out).
Storage_new(pts, m, b) ==
    LET n  == VecLen(pts)
        st == assign([new_points |-> <<>>, new_nodes |-> <<>>,
                      out |-> [i \in 0..(n - 1) |-> INVALID],
                      at_layer |-> next_lower(m, NoLayer)],
                     0, shuffled(b.seed, n), pts, m, n)
    IN  [storage |-> ToVec(st.new_points), layer_assignments |-> ToVec(st.new_nodes),
         out |-> st.out]

\* The construction loop of Hnsw::new from the layer l and the position nxt
\* on: the insertions of each layer in turn, the copy of the zero layer at the
\* end of every layer but layer 0. returns tells whether the loop ends.
RECURSIVE build_loop(_, _, _, _, _, _, _)
build_loop(l, nxt, nbrs, pl, m, st, b) ==
    IF nxt < Meta_points(m, l).end
    THEN LET popped == pool_pop(pl)
             r == insert(st.layer_assignments[nxt].pid, l, popped.pair, m, nbrs, st.storage, b)
         IN  IF r.blocked THEN [neighbors |-> nbrs, returns |-> FALSE]
             ELSE build_loop(l, nxt + 1, r.neighbors,
                             pool_push(popped.pool, [search |-> r.search, insertion |-> r.insertion]),
                             m, st, b)
    ELSE IF l # 0
         THEN build_loop(l - 1, Meta_points(m, l - 1).start,
                         copy_from_zero(nbrs, m, l, Meta_points(m, l).end), pl, m, st, b)
         ELSE [neighbors |-> nbrs, returns |-> TRUE]

\* Hnsw::new(points, builder) as a whole: the index and the remap vector.
Hnsw_new(pts, b) ==
    IF is_empty(pts)
    THEN [meta |-> Meta_default, storage |-> ToVec(<<>>), out |-> ToVec(<<>>),
          neighbors |-> ToVec(<<>>), returns |-> TRUE]
    ELSE LET m   == Meta_new(b.ml, VecLen(pts))
             st  == Storage_new(pts, m, b)
             top == Meta_len(m) - 1
             r   == build_loop(top, Meta_points(m, top).start,
                               [k \in 0..(Meta_neighbors(m) - 1) |-> INVALID], <<>>, m, st, b)
         IN  [meta |-> m, storage |-> st.storage, out |-> st.out,
              neighbors |-> r.neighbors, returns |-> r.returns]

-----------------------------------------------------------------------------
(* Hnsw::search and HnswMap (lib.rs) *)

\* The loop of Hnsw::search over meta.descending().
RECURSIVE search_descend(_, _, _, _, _, _, _)
search_descend(s, layers, point, m, nbrs, pts, ef) ==
    IF layers = <<>> THEN s
    ELSE LET cur == Head(layers)
             s1  == [s EXCEPT !.ef = IF is_zero(cur) THEN ef ELSE 1]
             num == IF is_zero(cur) THEN M * 2 ELSE M
             s2  == search_layer(s1, point, nbrs, Meta_layer(m, cur), pts, num)
         IN  search_descend(IF is_zero(cur) THEN s2 ELSE cull(s2),
                            Tail(layers), point, m, nbrs, pts, ef)

\* Hnsw::search(point, search): the scratch as the call leaves it; the items
\* returned are its nearest.
Hnsw_search(s, point, m, nbrs, pts, ef) ==
    LET s0 == reset(s)
    IN  IF is_empty(pts) THEN s0
        ELSE search_descend(push(s0, 0, point, pts), descending(m), point, m, nbrs, pts, ef)

\* Item::new and MapItem::from
MapItem(candidate, pts, vals) ==
    [distance |-> candidate.distance, pid |-> candidate.pid,
     point |-> pts[candidate.pid], value |-> vals[candidate.pid]]

\* HnswMap::search(point, search): the items, nearest first.
HnswMap_search(s, pts, vals) ==
    [i \in 1..Len(Search_iter(s)) |-> MapItem(Search_iter(s)[i], pts, vals)]

\* The sort_unstable of HnswMap::new: ids.enumerate() as (PointId, source
\* index), sorted by PointId.
RECURSIVE sort_by_pid(_)
sort_by_pid(ids) ==
    IF ids = <<>> THEN <<>>
    ELSE LET rest == sort_by_pid(Tail(ids))
             k    == Cardinality({i \in 1..Len(rest) : rest[i].pid < Head(ids).pid})
         IN  VecInsert(rest, k, Head(ids))

\* The values left in the order of the source.
HnswMap_values_unsorted(ids, vals) == [k \in 0..(VecLen(ids) - 1) |-> vals[k]]

\* HnswMap::new: the values in PointId order.
HnswMap_values(ids, vals) ==
    LET sorted == sort_by_pid([i \in 1..VecLen(ids) |-> [src |-> i - 1, pid |-> ids[i - 1]]])
    IN  [k \in 0..(Len(sorted) - 1) |-> vals[sorted[k + 1].src]]

-----------------------------------------------------------------------------
(* The state machine *)

\* The bound on the setter calls made on Builder::default() before build.
MaxSetters == 1

Coords == 0..MaxCoord

\* The point vectors of n points.
PointVecs(n) == [0..(n - 1) -> Coords]

\* The caller's values: one distinct value per original index.
ValuesFor(n) == [i \in 0..(n - 1) |-> <<"value", i>>]

NoCall == [point |-> -1, ef |-> -1, items |-> <<>>]

Empty == ToVec(<<>>)

\* The bound on the callers that search the built index at the same time.
MaxCallers == 2

Callers == 1..MaxCallers

\* A caller that has not called Hnsw::search yet: its scratch is Search::default().
NoQuery ==
    [pc |-> "idle", point |-> -1, scratch |-> Search_default, layers |-> <<>>, items |-> <<>>]

\* The bound on the threads of the pool that run the parallel for_each.
MaxWorkers == 2

Workers == 1..MaxWorkers

\* No row: the next step of a thread takes no row lock.
NoRow == -1

\* A thread of the pool outside the closure of the for_each. In the closure,
\* pid is the node it inserts, search and insertion the pair it popped, found
\* the neighbours selected, i the position in found, k the position of
\* select_heuristic in nearest and idx the index binary_search_by returned.
NoWorker ==
    [pc |-> "idle", pid |-> NoRow, search |-> Search_default, insertion |-> Search_default,
     found |-> <<>>, i |-> 0, k |-> 0, idx |-> 0]

\* No method has been applied to the scratch on its own yet. Later op is the
\* method, point the point of the search under way, pid the PointId given to
\* push, before and after the scratch on entry and on return.
NotApplied ==
    [op |-> "none", point |-> -1, pid |-> NoRow, before |-> Search_default,
     after |-> Search_default]

Init ==
    /\ pc = "new"
    /\ \E n \in 0..MaxN : points \in PointVecs(n) /\ values = ValuesFor(n)
    /\ \E seed \in 0..MaxSeed : builder \in Builders(seed, MaxSetters)
    /\ storage = Empty
    /\ out = Empty
    /\ meta = Meta_default
    /\ neighbors = Empty
    /\ ef_search = builder.ef_search
    /\ map_values = Empty
    /\ layer = 0
    /\ next = 0
    /\ layer_assignments = Empty
    /\ pool = <<>>
    /\ search = Search_default
    /\ last = NoCall
    /\ queries = [c \in Callers |-> NoQuery]
    /\ workers = [w \in Workers |-> NoWorker]
    /\ taken = {}
    /\ applied = NotApplied

\* Hnsw::new up to the construction loop: the empty index for no points
\* (HnswMap::new then maps no value), else the layout, the storage and the
\* neighbour array, all slots invalid.
New ==
    /\ pc = "new"
    /\ IF is_empty(points)
       THEN /\ pc' = "ready"
            /\ map_values' = HnswMap_values(out, values)
            /\ UNCHANGED <<storage, out, meta, neighbors, layer, next, layer_assignments>>
       ELSE LET m == Meta_new(builder.ml, VecLen(points))
                st == Storage_new(points, m, builder)
                top == Meta_len(m) - 1
            IN  /\ pc' = "building"
                /\ meta' = m
                /\ storage' = st.storage
                /\ out' = st.out
                /\ layer_assignments' = st.layer_assignments
                /\ neighbors' = [k \in 0..(Meta_neighbors(m) - 1) |-> INVALID]
                /\ layer' = top
                /\ next' = Meta_points(m, top).start
                /\ UNCHANGED map_values
    /\ UNCHANGED <<points, values, builder, ef_search, pool, search, last, queries, workers, taken,
                   applied>>

\* One turn of the for_each of the construction loop: state.insert(pid, layer)
\* for the next point of the layer. A thread that blocks on a row lock never
\* returns.
Insert ==
    /\ pc = "building"
    /\ next < Meta_points(meta, layer).end
    /\ LET popped == pool_pop(pool)
           r == insert(layer_assignments[next].pid, layer, popped.pair, meta, neighbors,
                       storage, builder)
       IN  IF r.blocked
           THEN /\ pc' = "blocked"
                /\ pool' = popped.pool
                /\ UNCHANGED <<neighbors, next>>
           ELSE /\ pc' = pc
                /\ neighbors' = r.neighbors
                /\ pool' = pool_push(popped.pool, [search |-> r.search, insertion |-> r.insertion])
                /\ next' = next + 1
    /\ UNCHANGED <<points, values, builder, storage, out, meta, ef_search, map_values, layer,
                   layer_assignments, search, last, queries, workers, taken,
                   applied>>

\* The end of a layer of the construction loop: the copy of the zero layer
\* into the layer just finished, and the step to the next lower layer.
CopyLayer ==
    /\ pc = "building"
    /\ next >= Meta_points(meta, layer).end
    /\ layer # 0
    /\ neighbors' = copy_from_zero(neighbors, meta, layer, Meta_points(meta, layer).end)
    /\ layer' = layer - 1
    /\ next' = Meta_points(meta, layer - 1).start
    /\ UNCHANGED <<pc, points, values, builder, storage, out, meta, ef_search, map_values,
                   layer_assignments, pool, search, last, queries, workers, taken,
                   applied>>

\* The end of layer 0: Hnsw::new returns and HnswMap::new maps the values.
Finish ==
    /\ pc = "building"
    /\ next >= Meta_points(meta, layer).end
    /\ layer = 0
    /\ pc' = "ready"
    /\ map_values' = HnswMap_values(out, values)
    /\ UNCHANGED <<points, values, builder, storage, out, meta, neighbors, ef_search, layer,
                   next, layer_assignments, pool, search, last, queries, workers, taken,
                   applied>>

\* HnswMap::search(point, search) on the built map with the caller's scratch.
Search(point) ==
    /\ pc = "ready"
    /\ LET s == Hnsw_search(search, point, meta, neighbors, storage, ef_search)
       IN  /\ search' = s
           /\ last' = [point |-> point, ef |-> search.ef,
                       items |-> HnswMap_search(s, storage, map_values)]
    /\ UNCHANGED <<pc, points, values, builder, storage, out, meta, neighbors, ef_search,
                   map_values, layer, next, layer_assignments, pool, queries, workers, taken,
                   applied>>

\* The ef_search of another index the caller's scratch is used on: that of
\* Builder::default() or of Builder::default().ef_search(0).
ElsewhereEf == {0, DefaultEf}

\* The caller's scratch is used for a search on another index, one of a
\* single point built with ef_search = ef: Hnsw::search leaves its ef and
\* what it found in the scratch.
SearchElsewhere(ef) ==
    /\ pc = "ready"
    /\ search' = Hnsw_search(search, 0, Meta_new(builder.ml, 1), [k \in 0..(2 * M - 1) |-> INVALID],
                             [i \in {0} |-> 0], ef)
    /\ last' = NoCall
    /\ UNCHANGED <<pc, points, values, builder, storage, out, meta, neighbors, ef_search,
                   map_values, layer, next, layer_assignments, pool, queries, workers, taken,
                   applied>>

Next ==
    \/ New
    \/ Insert
    \/ CopyLayer
    \/ Finish
    \/ \E point \in Coords : Search(point)

\* One index, built once and searched with a scratch from Search::default().
Spec == Init /\ [][Next]_vars

\* Hnsw::search up to its loop: the reset and the push of the enter point.
search_enter(s, point, pts) ==
    LET s0 == reset(s)
    IN  IF is_empty(pts) THEN s0 ELSE push(s0, 0, point, pts)

\* A turn of the loop that works on the scratch of the first caller, whoever
\* calls.
search_at_shared(s, cur, point, m, nbrs, pts, ef) ==
    LET s1 == [queries[1].scratch EXCEPT !.ef = IF is_zero(cur) THEN ef ELSE 1]
        s2 == search_layer(s1, point, nbrs, Meta_layer(m, cur), pts,
                           IF is_zero(cur) THEN M * 2 ELSE M)
    IN  IF is_zero(cur) THEN s2 ELSE cull(s2)

\* One turn of the loop of Hnsw::search, at the layer cur.
search_at(s, cur, point, m, nbrs, pts, ef) ==
    LET s1 == [s EXCEPT !.ef = IF is_zero(cur) THEN ef ELSE 1]
        s2 == search_layer(s1, point, nbrs, Meta_layer(m, cur), pts,
                           IF is_zero(cur) THEN M * 2 ELSE M)
    IN  IF is_zero(cur) THEN s2 ELSE cull(s2)

\* A caller enters Hnsw::search with its own scratch, while other callers may
\* be inside a search of theirs.
QueryBegin(c, point) ==
    /\ pc = "ready"
    /\ queries[c].pc = "idle"
    /\ queries' = [queries EXCEPT ![c] =
           [pc |-> "searching", point |-> point,
            scratch |-> search_enter(queries[c].scratch, point, storage),
            layers |-> IF is_empty(storage) THEN <<>> ELSE descending(meta),
            items |-> <<>>]]
    /\ UNCHANGED <<pc, points, values, builder, storage, out, meta, neighbors, ef_search,
                   map_values, layer, next, layer_assignments, pool, search, last, workers, taken,
                   applied>>

\* The search of a caller passes one layer.
QueryLayer(c) ==
    /\ queries[c].pc = "searching"
    /\ queries[c].layers # <<>>
    /\ queries' = [queries EXCEPT
           ![c].scratch = search_at(@, Head(queries[c].layers), queries[c].point, meta,
                                    neighbors, storage, ef_search),
           ![c].layers = Tail(@)]
    /\ UNCHANGED <<pc, points, values, builder, storage, out, meta, neighbors, ef_search,
                   map_values, layer, next, layer_assignments, pool, search, last, workers, taken,
                   applied>>

\* The search of a caller returns its items.
QueryReturn(c) ==
    /\ queries[c].pc = "searching"
    /\ queries[c].layers = <<>>
    /\ queries' = [queries EXCEPT
           ![c].pc = "returned",
           ![c].items = HnswMap_search(queries[c].scratch, storage, map_values)]
    /\ UNCHANGED <<pc, points, values, builder, storage, out, meta, neighbors, ef_search,
                   map_values, layer, next, layer_assignments, pool, search, last, workers, taken,
                   applied>>

NextQueries ==
    \/ New
    \/ Insert
    \/ CopyLayer
    \/ Finish
    \/ \E c \in Callers, point \in Coords : QueryBegin(c, point)
    \/ \E c \in Callers : QueryLayer(c)
    \/ \E c \in Callers : QueryReturn(c)

\* An index built with Builder::default() and searched by several callers at
\* the same time.
InitQueries == Init /\ builder = Builder_default(builder.seed)

SpecQueries == InitQueries /\ [][NextQueries]_vars

NextReuse ==
    \/ Next
    \/ \E ef \in ElsewhereEf : SearchElsewhere(ef)

\* The same, with the scratch also used on other indexes between the searches.
SpecReuse == Init /\ [][NextReuse]_vars

-----------------------------------------------------------------------------
(* Hnsw::new with the parallel for_each, and insert (contiguous.rs) *)

\* The bound on the points of a build by several threads.
MaxParallelN == 3

\* zero.as_slice(): the rows of layer 0, each behind its RwLock.
ZeroView == [start |-> 0, stride |-> M * 2]

\* The RwLock of the row r is held: the closure takes zero[pid].write() on
\* its first line and the guard lives until insert returns. Every other
\* guard is dropped within the step that takes it.
Locked(r) == \E v \in Workers : workers[v].pc # "idle" /\ workers[v].pid = r

\* The loop over meta.descending() of the closure down to the layer of the
\* insertion: the searches of the layers above it, which take no lock, and
\* ef for the search of the zero layer.
RECURSIVE descend_upper(_, _, _, _, _, _, _, _)
descend_upper(s, layers, point, l, m, nbrs, pts, efc) ==
    IF layers = <<>> THEN s
    ELSE LET cur == Head(layers)
             num == IF is_zero(l) THEN M * 2 ELSE M
             s1  == [s EXCEPT !.ef = IF cur <= l THEN efc ELSE 1]
         IN  IF cur > l
             THEN descend_upper(cull(search_layer(s1, point, nbrs, Meta_layer(m, cur), pts, num)),
                                Tail(layers), point, l, m, nbrs, pts, efc)
             ELSE s1

\* The loop of Search::search goes on: a candidate is left and it is not
\* farther than the furthest result.
search_continues(s) ==
    /\ s.candidates # <<>>
    /\ ~(s.nearest # <<>>
         /\ Head(s.candidates).distance > s.nearest[Len(s.nearest)].distance)

\* One turn of the loop of Search::search: the row of the candidate popped is
\* read under its read lock.
search_turn(s, point, nbrs, view, pts, links) ==
    LET candidate == Head(s.candidates)
        s1 == [s EXCEPT !.candidates = Tail(@)]
        s2 == push_all(s1, Take(nearest_iter(nbrs, view, candidate.pid), links), point, pts)
    IN  [s2 EXCEPT !.nearest = Truncate(@, s2.ef)]

\* The end of the loop of Search::search: pop returned None, or the
\* candidate popped was too far.
search_stop(s) == IF s.candidates = <<>> THEN s ELSE [s EXCEPT !.candidates = Tail(@)]

\* One turn of the first loop of select_heuristic, for the i-th candidate of
\* nearest: with extend_candidates its row is read under its read lock.
fill_turn(s, i, point, nbrs, view, pts, params) ==
    LET candidate == s.nearest[i]
        s1 == [s EXCEPT !.working = Append(@, candidate)]
    IN  IF params.extend_candidates
        THEN extend_hops(s1, nearest_iter(nbrs, view, candidate.pid), point, pts)
        ELSE s1

\* select_heuristic after its first loop: the sort, the admission and
\* keep_pruned.
select_admit(s1, pts, params) ==
    LET w  == IF params.extend_candidates THEN sort_unstable(s1.working) ELSE s1.working
        s2 == admit([s1 EXCEPT !.nearest = <<>>, !.discarded = <<>>, !.working = <<>>], w, pts)
    IN  IF params.keep_pruned
        THEN [s2 EXCEPT !.nearest = keep(s2.nearest, s2.discarded), !.discarded = <<>>]
        ELSE s2

\* select_heuristic reads rows one by one: only with extend_candidates.
reads_rows(params) == params.some /\ params.extend_candidates

\* The row whose lock the next step of the thread w takes, NoRow if none.
Needs(w) ==
    LET me == workers[w]
    IN  CASE me.pc = "search" ->
                 IF search_continues(me.search) THEN Head(me.search.candidates).pid ELSE NoRow
          [] me.pc = "select" ->
                 IF reads_rows(builder.heuristic) /\ me.k <= Len(me.search.nearest)
                 THEN me.search.nearest[me.k].pid ELSE NoRow
          [] me.pc = "extend" ->
                 IF me.k <= Len(me.insertion.nearest)
                 THEN me.insertion.nearest[me.k].pid ELSE NoRow
          [] me.pc = "link" -> IF me.i <= Len(me.found) THEN me.found[me.i].pid ELSE NoRow
          [] me.pc = "write" -> me.found[me.i].pid
          [] OTHER -> NoRow

\* Guards that stay alive from one neighbour found to the next: at the write
\* the thread holds the rows of all the neighbours it has linked so far.
Guards_never_dropped(w) ==
    IF workers[w].pc = "write"
    THEN {workers[w].found[j].pid : j \in 1..workers[w].i}
    ELSE IF Needs(w) = NoRow THEN {} ELSE {Needs(w)}

\* The rows other than its own whose guards the thread w holds during its
\* next step: the read guard of nearest_iter lives for one for loop, the
\* read guard of binary_search_by and the write guard of rewrite or insert
\* for one statement, so it is the one row the step locks.
Guards(w) == IF Needs(w) = NoRow THEN {} ELSE {Needs(w)}

\* read() and write() of parking_lot's RwLock return once no other guard
\* for writing is alive, the caller's own included.
CanLock(w) == \A r \in Guards(w) : ~Locked(r)

\* The closure of the for_each starts for a node of the layer: the write
\* lock of its row, the pair from the pool, the enter point and the searches
\* of the layers above.
WorkerStart(w, pid) ==
    /\ pc = "building"
    /\ workers[w].pc = "idle"
    /\ next < Meta_points(meta, layer).end
    /\ pid \in (Meta_points(meta, layer).start)..(Meta_points(meta, layer).end - 1)
    /\ pid \notin taken
    /\ LET popped == pool_pop(pool)
           point == storage[pid]
           s0 == push(reset(popped.pair.search), 0, point, storage)
           s1 == descend_upper(s0, descending(meta), point, layer, meta, neighbors, storage,
                               builder.ef_construction)
       IN  /\ workers' = [workers EXCEPT ![w] =
                  [NoWorker EXCEPT !.pc = "search", !.pid = pid, !.search = s1,
                                   !.insertion = popped.pair.insertion]]
           /\ pool' = popped.pool
    /\ taken' = taken \cup {pid}
    /\ UNCHANGED <<pc, points, values, builder, storage, out, meta, neighbors, ef_search,
                   map_values, layer, next, layer_assignments, search, last, queries,
                   applied>>

\* One turn of search.search(point, zero.as_slice(), &points, num), or its
\* end and insertion.ef = ef_construction.
WorkerSearch(w) ==
    /\ pc = "building"
    /\ workers[w].pc = "search"
    /\ CanLock(w)
    /\ LET me == workers[w]
           num == IF is_zero(layer) THEN M * 2 ELSE M
       IN  workers' = [workers EXCEPT ![w] =
               IF search_continues(me.search)
               THEN [me EXCEPT !.search = search_turn(me.search, storage[me.pid], neighbors,
                                                      ZeroView, storage, num)]
               ELSE [me EXCEPT !.search = search_stop(me.search), !.pc = "select", !.k = 1,
                               !.insertion = [@ EXCEPT !.ef = builder.ef_construction]]]
    /\ UNCHANGED <<pc, points, values, builder, storage, out, meta, neighbors, ef_search,
                   map_values, layer, next, layer_assignments, pool, search, last, queries,
                   taken,
                   applied>>

\* The selection of insert: select_simple, or select_heuristic on the search
\* scratch for the new node, or, called by add_neighbor_heuristic, on the
\* insertion scratch for a neighbour. With extend_candidates a step is one
\* turn of its first loop.
WorkerSelect(w) ==
    /\ pc = "building"
    /\ workers[w].pc \in {"select", "extend"}
    /\ CanLock(w)
    /\ LET me == workers[w]
           h  == builder.heuristic
           first == me.pc = "select"
           s  == IF first THEN me.search ELSE me.insertion
           point == IF first THEN storage[me.pid] ELSE storage[me.found[me.i].pid]
           s0 == IF me.k = 1 THEN [s EXCEPT !.working = <<>>] ELSE s
           sel == IF ~h.some THEN s
                  ELSE IF h.extend_candidates THEN select_admit(s0, storage, h)
                  ELSE select_heuristic(s, point, neighbors, ZeroView, storage, h)
       IN  workers' = [workers EXCEPT ![w] =
               IF reads_rows(h) /\ me.k <= Len(s.nearest)
               THEN LET s1 == fill_turn(s0, me.k, point, neighbors, ZeroView, storage, h)
                    IN  IF first THEN [me EXCEPT !.search = s1, !.k = me.k + 1]
                        ELSE [me EXCEPT !.insertion = s1, !.k = me.k + 1]
               ELSE IF first
                    THEN [me EXCEPT !.search = sel, !.pc = "link", !.i = 1,
                                    !.found = IF h.some THEN sel.nearest
                                              ELSE Take(select_simple(s), M * 2)]
                    ELSE [me EXCEPT !.insertion = sel, !.pc = "write"]]
    /\ UNCHANGED <<pc, points, values, builder, storage, out, meta, neighbors, ef_search,
                   map_values, layer, next, layer_assignments, pool, search, last, queries,
                   taken,
                   applied>>

\* The loop of insert at a neighbour found: layer.nearest_iter(pid) and the
\* pushes of add_neighbor_heuristic under the read lock of the neighbour's
\* row, or the binary search in that row.
WorkerLink(w) ==
    /\ pc = "building"
    /\ workers[w].pc = "link"
    /\ workers[w].i <= Len(workers[w].found)
    /\ CanLock(w)
    /\ LET me == workers[w]
           h  == builder.heuristic
           candidate == me.found[me.i]
           pid == candidate.pid
           seeded == push_all(push(reset(me.insertion), me.pid, storage[pid], storage),
                              nearest_iter(neighbors, ZeroView, pid), storage[pid], storage)
       IN  workers' = [workers EXCEPT ![w] =
               IF ~h.some
               THEN [me EXCEPT !.idx = insert_index(Row(neighbors, ZeroView, pid),
                                                    candidate.distance, pid, storage),
                               !.pc = "write"]
               ELSE IF h.extend_candidates
               THEN [me EXCEPT !.insertion = seeded, !.k = 1, !.pc = "extend"]
               ELSE [me EXCEPT !.insertion = select_heuristic(seeded, storage[pid], neighbors,
                                                              ZeroView, storage, h),
                               !.pc = "write"]]
    /\ UNCHANGED <<pc, points, values, builder, storage, out, meta, neighbors, ef_search,
                   map_values, layer, next, layer_assignments, pool, search, last, queries,
                   taken,
                   applied>>

\* layer[pid].write().rewrite(..) or .insert(idx, new) on the row of the
\* neighbour as it is now, and node.set(i, pid) on the row of the new node.
WorkerWrite(w) ==
    /\ pc = "building"
    /\ workers[w].pc = "write"
    /\ CanLock(w)
    /\ LET me == workers[w]
           pid == me.found[me.i].pid
           row == Row(neighbors, ZeroView, pid)
           n1  == SetRow(neighbors, ZeroView, pid,
                         IF builder.heuristic.some
                         THEN rewrite(row, Pids(me.insertion.nearest))
                         ELSE ZeroNode_insert(row, me.idx, me.pid))
       IN  /\ neighbors' = SetRow(n1, ZeroView, me.pid,
                                  ZeroNode_set(Row(n1, ZeroView, me.pid), me.i - 1, pid))
           /\ workers' = [workers EXCEPT ![w] = [me EXCEPT !.pc = "link", !.i = me.i + 1]]
    /\ UNCHANGED <<pc, points, values, builder, storage, out, meta, ef_search, map_values,
                   layer, next, layer_assignments, pool, search, last, queries, taken,
                   applied>>

\* insert returns, which drops the write guard of the new node, and the
\* closure pushes the pair back.
WorkerReturn(w) ==
    /\ pc = "building"
    /\ workers[w].pc = "link"
    /\ workers[w].i > Len(workers[w].found)
    /\ pool' = pool_push(pool, [search |-> workers[w].search,
                                insertion |-> workers[w].insertion])
    /\ workers' = [workers EXCEPT ![w] = NoWorker]
    /\ UNCHANGED <<pc, points, values, builder, storage, out, meta, neighbors, ef_search,
                   map_values, layer, next, layer_assignments, search, last, queries, taken,
                   applied>>

\* for_each returns: the closure has run to its end for every node of the
\* layer.
Join ==
    /\ pc = "building"
    /\ next < Meta_points(meta, layer).end
    /\ \A pid \in (Meta_points(meta, layer).start)..(Meta_points(meta, layer).end - 1) :
           pid \in taken
    /\ \A w \in Workers : workers[w].pc = "idle"
    /\ next' = Meta_points(meta, layer).end
    /\ UNCHANGED <<pc, points, values, builder, storage, out, meta, neighbors, ef_search,
                   map_values, layer, layer_assignments, pool, search, last, queries,
                   workers, taken,
                   applied>>

NextParallel ==
    \/ New
    \/ \E w \in Workers : \E pid \in 1..(MaxParallelN - 1) : WorkerStart(w, pid)
    \/ \E w \in Workers : WorkerSearch(w)
    \/ \E w \in Workers : WorkerSelect(w)
    \/ \E w \in Workers : WorkerLink(w)
    \/ \E w \in Workers : WorkerWrite(w)
    \/ \E w \in Workers : WorkerReturn(w)
    \/ Join
    \/ CopyLayer
    \/ Finish

\* The builds of up to MaxParallelN points.
InitParallel == Init /\ VecLen(points) <= MaxParallelN

\* The build of Hnsw::new in contiguous.rs, the insertions of a layer run by
\* the threads of the pool.
SpecParallel == InitParallel /\ [][NextParallel]_vars

-----------------------------------------------------------------------------
(* The methods of Search applied to a scratch one at a time (lib.rs) *)

\* The bound on the points the scratch is used with.
MaxScratchN == 3

\* The bound on the values given to ef.
MaxEf == 2

\* What applied records of a method applied to the scratch s.
Applied(op, point, pid, s, t) ==
    [op |-> op, point |-> point, pid |-> pid, before |-> s, after |-> t]

\* search.reset() at the start of a search for point.
ScratchReset(point) ==
    /\ pc = "new"
    /\ search' = reset(search)
    /\ applied' = Applied("reset", point, NoRow, search, search')
    /\ UNCHANGED <<pc, points, values, builder, storage, out, meta, neighbors, ef_search,
                   map_values, layer, next, layer_assignments, pool, last, queries, workers,
                   taken>>

\* search.ef = ef
ScratchSetEf(ef) ==
    /\ pc = "new"
    /\ applied.op # "none"
    /\ search' = [search EXCEPT !.ef = ef]
    /\ applied' = Applied("ef", applied.point, NoRow, search, search')
    /\ UNCHANGED <<pc, points, values, builder, storage, out, meta, neighbors, ef_search,
                   map_values, layer, next, layer_assignments, pool, last, queries, workers,
                   taken>>

\* search.push(pid, point, points)
ScratchPush(pid) ==
    /\ pc = "new"
    /\ applied.op # "none"
    /\ pid \in DOMAIN points
    /\ search' = push(search, pid, applied.point, points)
    /\ applied' = Applied("push", applied.point, pid, search, search')
    /\ UNCHANGED <<pc, points, values, builder, storage, out, meta, neighbors, ef_search,
                   map_values, layer, next, layer_assignments, pool, last, queries, workers,
                   taken>>

\* self.nearest.truncate(self.ef) at the end of a turn of Search::search
ScratchTruncate ==
    /\ pc = "new"
    /\ applied.op # "none"
    /\ search' = [search EXCEPT !.nearest = Truncate(@, search.ef)]
    /\ applied' = Applied("truncate", applied.point, NoRow, search, search')
    /\ UNCHANGED <<pc, points, values, builder, storage, out, meta, neighbors, ef_search,
                   map_values, layer, next, layer_assignments, pool, last, queries, workers,
                   taken>>

\* search.cull()
ScratchCull ==
    /\ pc = "new"
    /\ applied.op # "none"
    /\ search' = cull(search)
    /\ applied' = Applied("cull", applied.point, NoRow, search, search')
    /\ UNCHANGED <<pc, points, values, builder, storage, out, meta, neighbors, ef_search,
                   map_values, layer, next, layer_assignments, pool, last, queries, workers,
                   taken>>

NextScratch ==
    \/ \E point \in Coords : ScratchReset(point)
    \/ \E ef \in 0..MaxEf : ScratchSetEf(ef)
    \/ \E pid \in 0..(MaxScratchN - 1) : ScratchPush(pid)
    \/ ScratchTruncate
    \/ ScratchCull

\* A scratch of its own, Search::default(), and up to MaxScratchN points.
InitScratch ==
    /\ Init
    /\ VecLen(points) \in 1..MaxScratchN
    /\ builder = Builder_default(0)

\* The scratch under the methods of Search in any order.
SpecScratch == InitScratch /\ [][NextScratch]_vars

-----------------------------------------------------------------------------
(* The layout of the layers for many sizes and decay constants
   (contiguous_types.rs) *)

\* The bound on the number of points handed to Meta::new.
MaxMetaN == 8

\* The bound on the denominator of the decay constants ml = num / den,
\* 0 <= num < den.
MaxMlDen == 5

MetaMls == {r \in [num : 0..(MaxMlDen - 1), den : 1..MaxMlDen] : r.num < r.den}

\* Up to MaxMetaN equal points and Builder::default().ml(num / den).
InitMeta ==
    /\ pc = "new"
    /\ \E n \in 1..MaxMetaN : points = [i \in 0..(n - 1) |-> 0] /\ values = ValuesFor(n)
    /\ \E ml \in MetaMls : builder = [Builder_default(0) EXCEPT !.ml = ml]
    /\ storage = Empty
    /\ out = Empty
    /\ meta = Meta_default
    /\ neighbors = Empty
    /\ ef_search = builder.ef_search
    /\ map_values = Empty
    /\ layer = 0
    /\ next = 0
    /\ layer_assignments = Empty
    /\ pool = <<>>
    /\ search = Search_default
    /\ last = NoCall
    /\ queries = [c \in Callers |-> NoQuery]
    /\ workers = [w \in Workers |-> NoWorker]
    /\ taken = {}
    /\ applied = NotApplied

\* Hnsw::new up to the construction loop: Meta::new, the storage and the
\* array of meta.neighbors() sentinels.
NextMeta == New

SpecMeta == InitMeta /\ [][NextMeta]_vars

-----------------------------------------------------------------------------
(* Builds of many layers (lib.rs) *)

\* The number of points of a build in which a layer above layer 0 takes a
\* point when rows of layer 0 are full.
MaxTallN == 5

\* The ml handed to Builder::ml for such a build, 4/5: each of the layers 1
\* to 4 takes one point.
TallMlNum == 4

TallMlDen == 5

\* MaxTallN points and Builder::default().ml(4/5).select_heuristic(h).
InitTall ==
    /\ pc = "new"
    /\ points \in PointVecs(MaxTallN)
    /\ values = ValuesFor(MaxTallN)
    /\ \E h \in Heuristics :
           builder = [Builder_default(0) EXCEPT !.ml = [num |-> TallMlNum, den |-> TallMlDen],
                                                !.heuristic = h]
    /\ storage = Empty
    /\ out = Empty
    /\ meta = Meta_default
    /\ neighbors = Empty
    /\ ef_search = builder.ef_search
    /\ map_values = Empty
    /\ layer = 0
    /\ next = 0
    /\ layer_assignments = Empty
    /\ pool = <<>>
    /\ search = Search_default
    /\ last = NoCall
    /\ queries = [c \in Callers |-> NoQuery]
    /\ workers = [w \in Workers |-> NoWorker]
    /\ taken = {}
    /\ applied = NotApplied

SpecTall == InitTall /\ [][Next]_vars

-----------------------------------------------------------------------------
(* Properties of build and search *)

\* The number of points given to the build.
NumPoints == VecLen(points)

\* The map is built and a search on it has returned.
Searched == pc = "ready" /\ last # NoCall

\* Builder::default() with, at most, another ef_search.
DefaultBuilder ==
    builder = [Builder_default(builder.seed) EXCEPT !.ef_search = builder.ef_search]

\* The PointIds of the items of the last search, in order.
ItemPids == [k \in 1..Len(last.items) |-> last.items[k].pid]

\* The items of the last search are in non-decreasing distance.
NearestFirst ==
    \A k \in 1..(Len(last.items) - 1) : last.items[k].distance <= last.items[k + 1].distance

\* The last search returned every indexed point exactly once.
EveryPointOnce ==
    /\ Len(last.items) = NumPoints
    /\ Elems(ItemPids) = 0..(NumPoints - 1)

\* The first item of the last search is as near to the query as any point.
FirstIsNearest ==
    NumPoints > 0 =>
        /\ last.items # <<>>
        /\ \A i \in DOMAIN points : last.items[1].distance <= Abs(last.point - points[i])

C2_ValuesFollowRemap ==
    pc = "ready" =>
        /\ \A i \in DOMAIN points : map_values[out[i]] = values[i]
        /\ \A k \in 1..Len(last.items) :
               \E i \in DOMAIN points :
                   /\ out[i] = last.items[k].pid
                   /\ last.items[k].point = points[i]
                   /\ last.items[k].value = values[i]

C2_Witness ==
    /\ Searched
    /\ Len(last.items) >= 2
    /\ \E k \in 1..Len(last.items) : \E i \in DOMAIN points :
           out[i] = last.items[k].pid /\ i # out[i] /\ last.items[k].value = values[i]

\* The sort keys of two original indices collide.
KeysCollide ==
    \E i, j \in DOMAIN points :
        i # j /\ gen_range(builder.seed, i, NumPoints) = gen_range(builder.seed, j, NumPoints)

\* C3: for n >= 1 points and every seed, the remap vector has length n, every
\* entry is a PointId in [0, n) and never the sentinel, and the remap is a
\* bijection of the original indices onto [0, n), colliding sort keys included.
C3_RemapBijection ==
    (pc # "new" /\ NumPoints >= 1) =>
        /\ DOMAIN out = 0..(NumPoints - 1)
        /\ \A i \in DOMAIN out : out[i] \in 0..(NumPoints - 1) /\ out[i] # INVALID
        /\ \A i, j \in DOMAIN out : i # j => out[i] # out[j]
        /\ \A p \in 0..(NumPoints - 1) : \E i \in DOMAIN out : out[i] = p

C3_Witness ==
    /\ pc = "ready"
    /\ NumPoints >= 3
    /\ KeysCollide
    /\ \E i \in DOMAIN out : out[i] # i

\* C4: the build of zero points ends, without error, in an empty index and an
\* empty remap, and every search on it, whatever the query and the scratch,
\* returns no item.
C4_EmptyIndex ==
    NumPoints = 0 =>
        /\ pc \in {"new", "ready"}
        /\ pc = "ready" =>
               /\ Meta_len(meta) = 0
               /\ storage = Empty
               /\ neighbors = Empty
               /\ out = Empty
               /\ map_values = Empty
               /\ last.items = <<>>

C4_Witness ==
    /\ NumPoints = 0
    /\ Searched
    /\ last.ef = DefaultEf

\* The last search returned the single item of a one-point index.
SingleItem ==
    /\ Len(last.items) = 1
    /\ last.items[1].pid = 0
    /\ last.items[1].distance = Abs(last.point - points[0])

TwoItems ==
    /\ Len(last.items) = 2
    /\ Elems(ItemPids) = {0, 1}
    /\ last.items[1].distance <= last.items[2].distance

C7_StrictlyIncreasing ==
    Searched =>
        /\ \A k \in 1..(Len(last.items) - 1) :
               \/ last.items[k].distance < last.items[k + 1].distance
               \/ /\ last.items[k].distance = last.items[k + 1].distance
                  /\ last.items[k].pid < last.items[k + 1].pid
        /\ \A j, k \in 1..Len(last.items) : j # k => last.items[j].pid # last.items[k].pid

C7_Witness ==
    /\ Searched
    /\ Len(last.items) >= 3
    /\ \E k \in 1..(Len(last.items) - 1) :
           /\ last.items[k].distance = last.items[k + 1].distance
           /\ last.items[k].pid < last.items[k + 1].pid
    /\ \E k \in 1..(Len(last.items) - 1) : last.items[k].pid > last.items[k + 1].pid

\* The layers above layer 0, highest first.
UpperLayers == SubSeq(descending(meta), 1, Meta_len(meta) - 1)

\* The PointIds the descent of a search for the point hands to layer 0.
EnterPoints(point) ==
    Elems(Pids(search_descend(push(reset(Search_default), 0, point, storage), UpperLayers,
                              point, meta, neighbors, storage, ef_search).nearest))

\* The PointIds reachable from a set of PointIds along the rows of layer 0.
RECURSIVE Reachable(_)
Reachable(pids) ==
    LET more == pids \cup UNION {Elems(nearest_iter(neighbors, Meta_layer(meta, 0), p)) : p \in pids}
    IN  IF more = pids THEN pids ELSE Reachable(more)

C9_SameQuerySameItems ==
    [][(Searched /\ last' # NoCall /\ last'.point = last.point)
           => last'.items = last.items]_vars

\* The items of a search for the point with a scratch from Search::default().
FreshItems(point) ==
    HnswMap_search(Hnsw_search(Search_default, point, meta, neighbors, storage, ef_search),
                   storage, map_values)

\* The neighbour array after the insertion of the next point with a pair of
\* scratches from Search::new.
FreshInsert ==
    insert(layer_assignments[next].pid, layer, [search |-> Search_new, insertion |-> Search_new],
           meta, neighbors, storage, builder).neighbors

\* C10: a search returns what it returns with a fresh scratch, whatever the
\* scratch was used for before and whatever ef that use left in it, and an
\* insertion links what it links with a fresh pair from the pool.
C10_ScratchHistoryIrrelevant ==
    [][/\ (pc = "ready" /\ last' # NoCall) => last'.items = FreshItems(last'.point)
       /\ (pc = "building" /\ next' = next + 1) => neighbors' = FreshInsert]_vars

\* The items a search for the point returns when it runs alone, with a scratch
\* from Search::default().
AloneItems(point) ==
    LET s == Hnsw_search(Search_default, point, meta, neighbors, storage, ef_search)
    IN  [k \in 1..Len(s.nearest) |-> MapItem(s.nearest[k], storage, map_values)]

\* C11: a search never modifies the index: no step taken on the built index
\* changes meta, the neighbour array, the stored points or ef_search, it
\* writes only to the scratch of its caller, and searches that run at the same
\* time, each with its own scratch, return what they return when run alone.
C11_QueriesReadOnly ==
    /\ [](\A c \in Callers : queries[c].pc = "returned"
              => queries[c].items = AloneItems(queries[c].point))
    /\ [][pc = "ready" =>
              /\ UNCHANGED <<meta, neighbors, storage, ef_search, map_values, out>>
              /\ \A c \in Callers :
                     queries'[c] # queries[c] => \A d \in Callers \ {c} : queries'[d] = queries[d]]_vars

C11_Witness ==
    /\ queries[1].pc = "returned"
    /\ queries[2].pc = "searching"
    /\ queries[2].layers # <<>>
    /\ queries[2].scratch.nearest # <<>>
    /\ queries[1].point # queries[2].point
    /\ Len(queries[1].items) >= 2
    /\ Meta_len(meta) >= 2

\* The pairs (key, original index) the build sorts for the seed.
ShufflePairs ==
    [i \in DOMAIN points |-> [key |-> gen_range(builder.seed, i, NumPoints), idx |-> i]]

ZeroSlots == {k \in DOMAIN neighbors : k < NumPoints * (M * 2)}

\* The PointIds whose insertion has started: PointId 0 and every point the
\* construction loop has passed to insert.
Started ==
    {0} \cup {layer_assignments[k].pid :
                 k \in {j \in DOMAIN layer_assignments :
                           j >= 1 /\ (j < next \/ (pc = "blocked" /\ j = next))}}

\* C13: during and after construction every slot of every layer-0 row is the
\* invalid sentinel or the PointId, in [0, n), of a point whose insertion has
\* started.
C13_ZeroRowsHoldStartedPoints ==
    pc \in {"building", "blocked", "ready"} =>
        \A k \in ZeroSlots :
            \/ neighbors[k] = INVALID
            \/ /\ neighbors[k] \in 0..(NumPoints - 1)
               /\ neighbors[k] \in Started

C13_Witness ==
    /\ pc = "building"
    /\ layer = 0
    /\ next >= 2
    /\ next < NumPoints
    /\ \E k \in ZeroSlots : neighbors[k] = next - 1
    /\ \E k \in ZeroSlots : neighbors[k] = INVALID /\ k < next * (M * 2)

\* The valid entries of the row of the PointId p in the layer l.
RowEntries(l, p) == Elems(nearest_iter(neighbors, Meta_layer(meta, l), p))

\* Every slot of the row of the PointId p in the layer l.
RowSlots(l, p) == Elems(Row(neighbors, Meta_layer(meta, l), p))

\* The layers of the index and the PointIds that have a row in the layer l.
Layers == 0..(Meta_len(meta) - 1)

LayerPids(l) == 0..(meta[l].total - 1)

\* C14: no row holds its own PointId: during and after construction, with
\* simple selection and with every heuristic setting, the PointId p is in no
\* slot of the row of p, in layer 0 or in a higher layer.
C14_NoSelfReference ==
    pc \in {"building", "blocked", "ready"} =>
        \A l \in Layers : \A p \in LayerPids(l) : p \notin RowSlots(l, p)

C14_Witness ==
    /\ pc = "ready"
    /\ Meta_len(meta) >= 2
    /\ \E l \in Layers \ {0} : \E p \in LayerPids(l) : RowEntries(l, p) # {}
    /\ \A p \in LayerPids(0) : RowEntries(0, p) # {}

\* The distances from the PointId p to the entries of its layer-0 row that
\* precede the first sentinel, in row order.
RowDistances(p) ==
    LET row == nearest_iter(neighbors, Meta_layer(meta, 0), p)
    IN  [k \in 1..Len(row) |-> distance(storage[p], storage[row[k]])]

\* C15: after construction the entries of every layer-0 row that precede the
\* first sentinel are in non-decreasing distance from the PointId of the row,
\* under simple and under heuristic selection.
C15_RowsSortedByDistance ==
    pc = "ready" =>
        \A p \in DOMAIN storage :
            \A k \in 1..(Len(RowDistances(p)) - 1) : RowDistances(p)[k] <= RowDistances(p)[k + 1]

\* The PointIds reachable from PointId 0 along the rows of layer 0.
ReachableFromZero == Reachable({0})

\* C16: after every completed insertion and after the build, every PointId
\* inserted so far is reachable from PointId 0 along layer-0 rows, for every
\* Builder configuration.
C16_InsertedReachable ==
    (pc \in {"building", "ready"} /\ NumPoints >= 1) =>
        (0..(next - 1)) \subseteq ReachableFromZero

\* The PointIds whose assigned maximum layer is l.
AssignedTo(l) == {p \in DOMAIN layer_assignments : layer_assignments[p].layer = l}

\* The total of the layer above l, 0 above the top layer.
TotalAbove(l) == IF l + 1 \in Layers THEN meta[l + 1].total ELSE 0

RECURSIVE SumMax(_)
SumMax(l) == IF l \in Layers THEN meta[l].max + SumMax(l + 1) ELSE 0

\* C17: for n >= 1, the number of PointIds assigned to the layer L is
\* meta[L].max, the max values sum to n, layer 0 has total n, and the points
\* assigned to L are the PointIds from the total of layer L + 1 (0 above the
\* top layer) up to, not including, the total of L.
C17_LayerAssignment ==
    (pc # "new" /\ NumPoints >= 1) =>
        /\ \A l \in Layers :
              /\ Cardinality(AssignedTo(l)) = meta[l].max
              /\ AssignedTo(l) = TotalAbove(l)..(meta[l].total - 1)
        /\ SumMax(0) = NumPoints
        /\ meta[0].total = NumPoints
        /\ VecLen(layer_assignments) = NumPoints

C17_Witness ==
    /\ pc = "ready"
    /\ NumPoints = MaxN
    /\ Meta_len(meta) = 3
    /\ Cardinality(AssignedTo(0)) = 2
    /\ AssignedTo(2) = {0}

\* The valid entries of the row of p on the layer l.
ValidEntries(l, p) == RowSlots(l, p) \ {INVALID}

\* C18 as stated: after construction, the valid entries of every row of a
\* higher layer are among the valid entries of the final layer-0 row of the
\* same PointId.
C18_UpperRowsSubsetOfFinal ==
    pc = "ready" =>
        \A l \in Layers \ {0} : \A p \in LayerPids(l) :
            ValidEntries(l, p) \subseteq ValidEntries(0, p)

\* C18, amended: when the insertions of a higher layer L end, every row of L
\* takes the first M slots that the layer-0 row of the same PointId holds at
\* that moment, and no later step of the construction or of a search changes
\* a row of a layer above the one under construction.
C18_UpperRowsAreSnapshots ==
    [][pc # "new" =>
        /\ layer' < layer =>
              \A p \in LayerPids(layer) :
                  Row(neighbors', Meta_layer(meta, layer), p)
                      = SubSeq(Row(neighbors', Meta_layer(meta, 0), p), 1, M)
        /\ \A l \in Layers : l > layer =>
              \A p \in LayerPids(l) :
                  Row(neighbors', Meta_layer(meta, l), p)
                      = Row(neighbors, Meta_layer(meta, l), p)]_vars

\* A built index in which a row of a higher layer holds a PointId that the
\* final layer-0 row of the same point no longer holds.
C18_Witness ==
    /\ pc = "ready"
    /\ \E l \in Layers \ {0} : \E p \in LayerPids(l) :
          /\ ValidEntries(l, p) # {}
          /\ ~(ValidEntries(l, p) \subseteq ValidEntries(0, p))

\* C19: construction runs to completion for every input and every Builder
\* configuration: no call to insert blocks on a row lock, the lock of the row
\* of the node it inserts included. A thread that blocks on a lock it holds
\* itself is never released, so the blocked state is one that never ends.
C19_InsertNeverBlocks == pc # "blocked"

\* The thread that holds the lock the thread w needs next, 0 if none does.
WaitsFor(w) ==
    IF Needs(w) # NoRow /\ Locked(Needs(w))
    THEN CHOOSE v \in Workers : workers[v].pc # "idle" /\ workers[v].pid = Needs(w)
    ELSE 0

\* The thread at the end of k steps along WaitsFor from w, 0 if the chain ends.
RECURSIVE WaitChain(_, _)
WaitChain(w, k) == IF w = 0 \/ k = 0 THEN w ELSE WaitChain(WaitsFor(w), k - 1)

\* C20: with several threads inserting points of the same layer at the same
\* time, no threads wait for each other's row locks in a cycle, a thread
\* that waits for a lock it holds itself included: the insertion of a layer
\* never deadlocks.
C20_NoLockCycle ==
    Cardinality({w \in Workers : workers[w].pc # "idle"}) >= 2 =>
        \A w \in Workers : \A k \in 1..MaxWorkers : WaitChain(w, k) # w

\* Without extend_candidates no thread waits in a cycle.
NoLockCycleUnlessExtended ==
    ~reads_rows(builder.heuristic) =>
        \A w \in Workers : \A k \in 1..MaxWorkers : WaitChain(w, k) # w

\* Without extend_candidates, while some thread is in the closure, some
\* thread in the closure can take its next step.
ProgressUnlessExtended ==
    (~reads_rows(builder.heuristic) /\ \E w \in Workers : workers[w].pc # "idle") =>
        \E w \in Workers : workers[w].pc # "idle" /\ CanLock(w)

\* The thread w has read the row of a neighbour found and has not yet
\* written it.
BetweenReadAndWrite(w) == workers[w].pc = "write"

\* The row the thread w has read and is about to write.
RowInHand(w) == workers[w].found[workers[w].i].pid

\* C21: with the insertions of a layer run in parallel, between a thread's
\* read of a neighbour's row and its write of that row no other thread writes
\* the row.
C21_ReadThenWriteAtomic ==
    [][\A w \in Workers :
          (BetweenReadAndWrite(w) /\ workers'[w] = workers[w]) =>
              Row(neighbors', ZeroView, RowInHand(w)) = Row(neighbors, ZeroView, RowInHand(w))]_vars

\* The candidate (d, p) of the latest push.
Pushed == Candidate(distance(applied.point, points[applied.pid]), applied.pid)

\* The latest push was given a PointId not yet visited.
PushedUnvisited == applied.op = "push" /\ applied.pid \notin applied.before.visited

\* The latest push put its candidate into nearest at its sorted position and
\* onto candidates.
PushTookIt ==
    /\ \E idx \in 0..Len(applied.before.nearest) :
          /\ applied.after.nearest = VecInsert(applied.before.nearest, idx, Pushed)
          /\ \A j \in 1..idx : cmp(applied.before.nearest[j], Pushed) = -1
          /\ \A j \in (idx + 1)..Len(applied.before.nearest) :
                 cmp(applied.before.nearest[j], Pushed) = 1
    /\ applied.after.candidates = heap_push(applied.before.candidates, Pushed)

\* The latest push changed neither nearest nor candidates.
PushLeftIt ==
    /\ applied.after.nearest = applied.before.nearest
    /\ applied.after.candidates = applied.before.candidates

\* C23 as stated: a push of a PointId not yet visited takes the candidate
\* exactly when nearest has fewer than ef elements or the distance is smaller
\* than that of the last element of nearest, and else changes nothing.
C23_PushWhenCloserThanLast ==
    PushedUnvisited =>
        LET nearest == applied.before.nearest
            room == \/ Len(nearest) < applied.before.ef
                    \/ (nearest # <<>> /\ Pushed.distance < nearest[Len(nearest)].distance)
        IN  IF room THEN PushTookIt ELSE PushLeftIt

\* C23, amended: a push of a PointId not yet visited takes the candidate
\* exactly when fewer than ef elements of nearest come before it in the order
\* by (distance, PointId), and else changes nothing.
C23_PushWhenRankBelowEf ==
    PushedUnvisited =>
        LET nearest == applied.before.nearest
            rank == Cardinality({j \in 1..Len(nearest) : cmp(nearest[j], Pushed) = -1})
        IN  IF rank < applied.before.ef THEN PushTookIt ELSE PushLeftIt

\* A push took a candidate as far as the last element of a full nearest.
C23_Witness ==
    /\ PushedUnvisited
    /\ Len(applied.before.nearest) = applied.before.ef
    /\ applied.before.nearest # <<>>
    /\ Pushed.distance = applied.before.nearest[Len(applied.before.nearest)].distance
    /\ PushTookIt

\* The scratch as each layer search of Hnsw::search for point returns, from
\* the scratch s on, layer by layer.
RECURSIVE QueryReturns(_, _, _)
QueryReturns(s, layers, point) ==
    IF layers = <<>> THEN <<>>
    ELSE LET cur == Head(layers)
             s1  == [s EXCEPT !.ef = IF is_zero(cur) THEN ef_search ELSE 1]
             s2  == search_layer(s1, point, neighbors, Meta_layer(meta, cur), storage,
                                 IF is_zero(cur) THEN M * 2 ELSE M)
         IN  <<s2>> \o QueryReturns(IF is_zero(cur) THEN s2 ELSE cull(s2), Tail(layers), point)

\* The scratch as each layer search of insert(new, l) returns.
RECURSIVE InsertReturns(_, _, _, _)
InsertReturns(s, layers, new, l) ==
    IF layers = <<>> THEN <<>>
    ELSE LET cur == Head(layers)
             num == IF is_zero(l) THEN M * 2 ELSE M
             s1  == [s EXCEPT !.ef = IF cur <= l THEN builder.ef_construction ELSE 1]
         IN  IF cur > l
             THEN LET s2 == search_layer(s1, storage[new], neighbors, Meta_layer(meta, cur),
                                         storage, num)
                  IN  <<s2>> \o InsertReturns(cull(s2), Tail(layers), new, l)
             ELSE <<search_layer(s1, storage[new], neighbors, Meta_layer(meta, 0), storage, num)>>

\* The layer searches of a query for point with the caller's scratch as it is.
QueryLayerSearches(point) ==
    QueryReturns(search_enter(search, point, storage), descending(meta), point)

\* The layer searches of the insertion that comes next in the construction.
InsertLayerSearches ==
    LET new == layer_assignments[next].pid
    IN  InsertReturns(push(reset(pool_pop(pool).pair.search), 0, storage[new], storage),
                      descending(meta), new, layer)

\* nearest is strictly sorted by (distance, PointId), holds at most ef
\* elements, all of them visited.
SortedCappedVisited(s) ==
    /\ \A j \in 1..(Len(s.nearest) - 1) : cmp(s.nearest[j], s.nearest[j + 1]) = -1
    /\ Len(s.nearest) <= s.ef
    /\ \A j \in 1..Len(s.nearest) : s.nearest[j].pid \in s.visited

\* An insertion is about to run.
InsertDue == pc = "building" /\ next < Meta_points(meta, layer).end

\* C24: whenever a layer search of Hnsw::search or of insert returns, nearest
\* is strictly sorted by (distance, PointId), holds at most ef elements, and
\* each of its PointIds is visited; a query returns at most ef_search items.
C24_NearestSortedCapped ==
    /\ (pc = "ready" /\ NumPoints >= 1) =>
           \A point \in Coords :
               LET returns == QueryLayerSearches(point)
               IN  \A k \in 1..Len(returns) : SortedCappedVisited(returns[k])
    /\ InsertDue =>
           LET returns == InsertLayerSearches
           IN  \A k \in 1..Len(returns) : SortedCappedVisited(returns[k])
    /\ Searched => Len(last.items) <= ef_search

\* A query on an index of several layers came back with exactly ef_search
\* items, fewer than the points of the index.
C24_Witness ==
    /\ Searched
    /\ Meta_len(meta) >= 2
    /\ ef_search \in 1..(NumPoints - 1)
    /\ Len(last.items) = ef_search

\* The scratch as each layer search of the insertion that comes next is
\* entered: the enter point first, later the result of the layer above
\* after cull.
InsertLayerEnters ==
    LET new == layer_assignments[next].pid
        returns == InsertLayerSearches
    IN  [k \in 1..Len(returns) |->
            IF k = 1 THEN push(reset(pool_pop(pool).pair.search), 0, storage[new], storage)
            ELSE cull(returns[k - 1])]

\* The scratch as the search on the rows of layer 0 for the insertion that
\* comes next is entered, and as it returns.
FinalEnter == InsertLayerEnters[Len(InsertLayerEnters)]

FinalReturn ==
    LET new == layer_assignments[next].pid
    IN  insert_descend(push(reset(pool_pop(pool).pair.search), 0, storage[new], storage),
                       descending(meta), storage[new], layer, meta, neighbors, storage,
                       builder.ef_construction)

\* The first k valid entries of the rows of pids in a layer view.
Considered(view, pids, k) ==
    UNION {Elems(Take(nearest_iter(neighbors, view, c), k)) : c \in pids}

\* The candidate the search on layer 0 pops first; the loop always goes
\* through its row.
FirstPopped == Head(FinalEnter.candidates).pid

\* C25 as stated: for an insertion on any layer L the search on the rows of
\* layer 0 takes up to 2M entries of the row of a popped candidate.
C25_ZeroSearchTakesTwoM ==
    (InsertDue /\ FinalEnter.candidates # <<>>) =>
        Considered(ZeroView, {FirstPopped}, M * 2) \subseteq FinalReturn.visited

\* C25, amended: the search on the rows of layer 0 takes up to 2M entries of
\* the row of a popped candidate when L = 0 and up to M when L > 0, and
\* nothing past the first M; the searches on the layers above L take up to M.
C25_ZeroSearchTakesLinksOfLayer ==
    InsertDue =>
        LET returns == InsertLayerSearches
            enters  == InsertLayerEnters
            links   == IF layer = 0 THEN M * 2 ELSE M
        IN  /\ returns[Len(returns)] = FinalReturn
            /\ FinalEnter.candidates # <<>> =>
                   Considered(ZeroView, {FirstPopped}, links) \subseteq FinalReturn.visited
            /\ layer # 0 =>
                   FinalReturn.visited \subseteq
                       FinalEnter.visited \cup Considered(ZeroView, FinalReturn.visited, M)
            /\ \A k \in 1..(Len(returns) - 1) :
                   returns[k].visited \subseteq
                       enters[k].visited
                           \cup Considered(Meta_layer(meta, descending(meta)[k]),
                                           returns[k].visited, M)

\* An insertion on a layer above 0 pops a candidate whose row of layer 0
\* holds a PointId past the first M entries, and the search never visits it.
C25_Witness ==
    /\ InsertDue
    /\ layer > 0
    /\ FinalEnter.candidates # <<>>
    /\ ~(Considered(ZeroView, {FirstPopped}, M * 2) \subseteq FinalReturn.visited)

\* The neighbours found for the insertion that comes next.
NextFound ==
    insert(layer_assignments[next].pid, layer, pool_pop(pool).pair, meta, neighbors,
           storage, builder).found

\* C26: with simple selection the index at which the new node goes into the
\* row of a selected neighbour c is the sorted position for distance(new, c):
\* every valid entry before the index is no farther from c than the new
\* node, every entry from the index on is farther from c or is a sentinel.
C26_IndexIsSortedPosition ==
    (InsertDue /\ ~builder.heuristic.some) =>
        \A i \in 1..Len(NextFound) :
            LET c   == NextFound[i]
                row == Row(neighbors, ZeroView, c.pid)
                idx == insert_index(row, c.distance, c.pid, storage)
            IN  /\ \A j \in 1..Min(idx, Len(row)) :
                       is_valid(row[j]) =>
                           distance(storage[c.pid], storage[row[j]]) <= c.distance
                /\ \A j \in (idx + 1)..Len(row) :
                       \/ ~is_valid(row[j])
                       \/ distance(storage[c.pid], storage[row[j]]) > c.distance

\* How often the PointId q stands in a row.
Count(row, q) == Cardinality({j \in 1..Len(row) : row[j] = q})

\* The row after a shift-insert at the 0-based idx: the slots before idx as
\* they were, pid at idx, each later slot holding what stood one slot before.
ShiftInsert(row, idx, pid) ==
    [j \in 1..Len(row) |->
        IF j - 1 < idx THEN row[j] ELSE IF j - 1 = idx THEN pid ELSE row[j - 1]]

\* The index insert finds in the row of the i-th neighbour found for the
\* insertion that comes next.
LinkIndex(i) ==
    insert_index(Row(neighbors, ZeroView, NextFound[i].pid), NextFound[i].distance,
                 NextFound[i].pid, storage)

\* C27: ZeroNode::insert(idx, pid) on a row of the index: with idx < 2M the
\* slots before idx stay, pid stands at idx, each former entry from idx on
\* stands one slot later and only the former last slot is lost; with
\* idx >= 2M the row stays as it is. No other valid entry is lost or doubled.
C27_InsertShiftsRow ==
    pc \in {"building", "ready"} =>
        \A c \in DOMAIN storage : \A pid \in DOMAIN storage : \A idx \in 0..(M * 2 + 1) :
            LET row   == Row(neighbors, ZeroView, c)
                after == ZeroNode_insert(row, idx, pid)
            IN  /\ Len(after) = M * 2
                /\ idx >= M * 2 => after = row
                /\ idx < M * 2 =>
                       /\ after = ShiftInsert(row, idx, pid)
                       /\ \A q \in DOMAIN storage \ {pid} :
                              Count(after, q) = Count(row, q) - (IF row[M * 2] = q THEN 1 ELSE 0)
                       /\ Count(after, pid) =
                              Count(row, pid) + 1 - (IF row[M * 2] = pid THEN 1 ELSE 0)

\* A link of the insertion that comes next shifts a full row: the index is
\* before a valid entry and the last slot holds a valid entry, which is lost.
C27_Witness ==
    /\ InsertDue
    /\ ~builder.heuristic.some
    /\ \E i \in 1..Len(NextFound) :
           LET row == Row(neighbors, ZeroView, NextFound[i].pid)
           IN  /\ LinkIndex(i) < M * 2
               /\ is_valid(row[LinkIndex(i) + 1])
               /\ is_valid(row[M * 2])
               /\ LinkIndex(i) + 1 < M * 2

\* A call of select_heuristic: the scratch it starts from, the query point,
\* the working list after the first loop and the sort, the candidates the
\* second loop admitted and discarded, and the selection.
Selection(input, point) ==
    LET h  == builder.heuristic
        s1 == fill_working([input EXCEPT !.working = <<>>], 1, point, neighbors, ZeroView,
                           storage, h)
        w  == IF h.extend_candidates THEN sort_unstable(s1.working) ELSE s1.working
        s2 == admit([s1 EXCEPT !.nearest = <<>>, !.discarded = <<>>, !.working = <<>>],
                    w, storage)
    IN  [point     |-> point,
         working   |-> w,
         admitted  |-> s2.nearest,
         discarded |-> s2.discarded,
         nearest   |-> select_heuristic(input, point, neighbors, ZeroView, storage, h).nearest]

\* The call of select_heuristic for the new node of the insertion that comes
\* next.
NodeSelection == Selection(FinalReturn, storage[layer_assignments[next].pid])

\* The call of select_heuristic in add_neighbor_heuristic for the i-th
\* neighbour found: the scratch after the reset and the pushes of the new
\* node and of the row of the neighbour.
LinkSelection(i) ==
    LET new == layer_assignments[next].pid
        pid == NextFound[i].pid
        insertion == [pool_pop(pool).pair.insertion EXCEPT !.ef = builder.ef_construction]
    IN  Selection(push_all(push(reset(insertion), new, storage[pid], storage),
                           nearest_iter(neighbors, ZeroView, pid), storage[pid], storage),
                  storage[pid])

\* The calls of select_heuristic of the insertion that comes next: the one
\* for the new node and, where the rows are not read again, the one of
\* add_neighbor_heuristic for each neighbour found.
Selections ==
    {NodeSelection}
        \cup (IF builder.heuristic.extend_candidates THEN {}
              ELSE {LinkSelection(i) : i \in 1..Len(NextFound)})

\* The candidate at position k of the working list is left out although the
\* selection was not full, and an earlier selected one is closer to it than
\* the query.
Rejected(sel, k) ==
    /\ sel.working[k] \notin Elems(sel.nearest)
    /\ \E i \in 1..(k - 1) :
           /\ sel.working[i] \in Elems(sel.nearest)
           /\ distance(storage[sel.working[k].pid], storage[sel.working[i].pid])
                  < sel.working[k].distance

\* The selection was full before the candidate at position k was met.
FullBefore(sel, k) ==
    Cardinality({i \in 1..(k - 1) : sel.working[i] \in Elems(sel.nearest)}) >= M * 2

\* C28: with a heuristic and keep_pruned = false every selected candidate c
\* is at least as far from each candidate selected before it as from the
\* query, and a candidate met while the selection has room is left out only
\* if an earlier selected one is strictly closer to it than the query is.
C28_DiversityRule ==
    (InsertDue /\ builder.heuristic.some /\ ~builder.heuristic.keep_pruned) =>
        \A sel \in Selections :
            /\ \A j \in 1..Len(sel.nearest) :
                   /\ sel.nearest[j].distance
                          = distance(storage[sel.nearest[j].pid], sel.point)
                   /\ \A i \in 1..(j - 1) :
                          distance(storage[sel.nearest[j].pid], storage[sel.nearest[i].pid])
                              >= sel.nearest[j].distance
            /\ \A k \in 1..Len(sel.working) :
                   sel.working[k] \notin Elems(sel.nearest) =>
                       Rejected(sel, k) \/ FullBefore(sel, k)

\* One call selects two candidates and one call leaves a candidate out for
\* a selected one that is closer to it than the query.
C28_Witness ==
    /\ InsertDue
    /\ builder.heuristic.some
    /\ ~builder.heuristic.keep_pruned
    /\ \E sel \in Selections : Len(sel.nearest) = M * 2
    /\ \E sel \in Selections : \E k \in 1..Len(sel.working) : Rejected(sel, k)

\* The PointIds add_neighbor_heuristic pushes for the i-th neighbour found:
\* the new node and the valid entries of the row of the neighbour.
LinkPushed(i) ==
    {layer_assignments[next].pid}
        \cup Elems(nearest_iter(neighbors, ZeroView, NextFound[i].pid))

\* With keep_pruned the selection is the admitted candidates followed by the
\* discarded ones in their order, up to 2M entries; of a working list of at
\* most 2M candidates none is left out.
KeepsPruned(sel) ==
    /\ sel.nearest = Take(sel.admitted \o sel.discarded, M * 2)
    /\ Len(sel.working) <= M * 2 => Elems(sel.nearest) = Elems(sel.working)

\* C29 as stated: with keep_pruned the discarded candidates follow the
\* admitted ones up to 2M entries, and when the working list has at most 2M
\* candidates the selection holds all of them; add_neighbor_heuristic then
\* drops no existing neighbour and not the new node.
C29_KeepPrunedDropsNothing ==
    (InsertDue /\ builder.heuristic.some /\ builder.heuristic.keep_pruned) =>
        /\ \A sel \in Selections : KeepsPruned(sel)
        /\ ~builder.heuristic.extend_candidates =>
               \A i \in 1..Len(NextFound) :
                   Len(LinkSelection(i).working) <= M * 2 =>
                       LinkPushed(i) \subseteq Elems(Pids(LinkSelection(i).nearest))

\* C29, amended: the same for the selection; add_neighbor_heuristic drops no
\* existing neighbour and not the new node when they are at most 2M and
\* ef_construction is at least their number, and whatever it selects is
\* among them.
C29_KeepPrunedKeepsWorking ==
    (InsertDue /\ builder.heuristic.some /\ builder.heuristic.keep_pruned) =>
        /\ \A sel \in Selections : KeepsPruned(sel)
        /\ ~builder.heuristic.extend_candidates =>
               \A i \in 1..Len(NextFound) :
                   /\ Elems(Pids(LinkSelection(i).nearest)) \subseteq LinkPushed(i)
                   /\ Cardinality(LinkPushed(i)) <= Min(M * 2, builder.ef_construction) =>
                          LinkPushed(i) = Elems(Pids(LinkSelection(i).nearest))

\* A selection appends a discarded candidate, and add_neighbor_heuristic
\* keeps the new node and an existing neighbour.
C29_Witness ==
    /\ InsertDue
    /\ builder.heuristic.some
    /\ builder.heuristic.keep_pruned
    /\ ~builder.heuristic.extend_candidates
    /\ \E sel \in Selections :
           sel.discarded # <<>> /\ Len(sel.nearest) > Len(sel.admitted)
    /\ \E i \in 1..Len(NextFound) :
           /\ Cardinality(LinkPushed(i)) = M * 2
           /\ LinkPushed(i) = Elems(Pids(LinkSelection(i).nearest))

\* C30: the neighbours selected for a new node, by simple or by heuristic
\* selection and for any ef_construction, hold no PointId twice and are at
\* most 2M, so the uniqueness assertion of insert holds and every
\* node.set(i, pid) writes a slot of the row of the new node.
C30_FoundUniqueAndBounded ==
    InsertDue =>
        /\ Len(NextFound) <= M * 2
        /\ \A i, j \in 1..Len(NextFound) : i # j => NextFound[i].pid # NextFound[j].pid
        /\ \A i \in 1..Len(NextFound) :
               /\ NextFound[i].pid \in DOMAIN storage
               /\ i - 1 < Len(Row(neighbors, ZeroView, layer_assignments[next].pid))

\* Simple selection cuts a search result of more than 2M candidates down
\* to 2M neighbours.
C30_Witness ==
    /\ InsertDue
    /\ ~builder.heuristic.some
    /\ Len(FinalReturn.nearest) > M * 2
    /\ Len(NextFound) = M * 2

\* The PointIds whose layer-0 row the insertion that comes next may write:
\* the new node and the neighbours found for it.
Touched == {layer_assignments[next].pid} \cup Elems(Pids(NextFound))

\* The slots of the flat array that belong to the layer-0 rows of pids.
SlotsOfRows(pids) ==
    {k \in DOMAIN neighbors : k < meta[0].end /\ (k \div (M * 2)) \in pids}

\* C31: insert(new, L) changes only the layer-0 row of new and the layer-0
\* rows of the neighbours selected for new; every other layer-0 row and
\* every row of a higher layer stays, and with extend_candidates = false
\* each neighbour row holds afterwards only PointIds it held before, or new.
C31_InsertFrame ==
    [][(pc = "building" /\ next' = next + 1) =>
          /\ \A k \in DOMAIN neighbors :
                 neighbors'[k] # neighbors[k] => k \in SlotsOfRows(Touched)
          /\ ~builder.heuristic.extend_candidates =>
                 \A c \in Elems(Pids(NextFound)) :
                     Elems(nearest_iter(neighbors', ZeroView, c))
                         \subseteq Elems(nearest_iter(neighbors, ZeroView, c))
                                       \cup {layer_assignments[next].pid}]_vars

\* An insertion is due that finds a neighbour while a layer-0 row it does
\* not touch and a row of a higher layer hold entries.
C31_Witness ==
    /\ InsertDue
    /\ NextFound # <<>>
    /\ ~insert(layer_assignments[next].pid, layer, pool_pop(pool).pair, meta, neighbors,
               storage, builder).blocked
    /\ \E p \in DOMAIN storage \ Touched : RowEntries(0, p) # {}
    /\ \E l \in Layers \ {0} : \E p \in LayerPids(l) : RowEntries(l, p) # {}

\* The slots of the flat array that hold the rows of the layer l.
LayerSlots(l) == {k \in DOMAIN neighbors : k >= meta[l].start /\ k < meta[l].end}

\* C32: a higher layer is written only when every insertion of that layer
\* has returned, in the one step that also ends the layer, so before any
\* insertion of the next lower layer; the step writes the first M slots of
\* the layer-0 rows as they are then, and no step writes a row of a higher
\* layer at any other time.
C32_SnapshotBetweenLayers ==
    [][pc = "building" =>
          /\ (\E l \in Layers \ {0} : \E k \in LayerSlots(l) : neighbors'[k] # neighbors[k]) =>
                 /\ layer' = layer - 1
                 /\ \A k \in DOMAIN neighbors :
                        neighbors'[k] # neighbors[k] => k \in LayerSlots(layer)
          /\ layer' # layer =>
                 /\ layer' = layer - 1
                 /\ next = Meta_points(meta, layer).end
                 /\ next' = Meta_points(meta, layer').start
                 /\ \A p \in LayerPids(layer) :
                        Row(neighbors', Meta_layer(meta, layer), p)
                            = SubSeq(Row(neighbors, ZeroView, p), 1, M)
          /\ next' = next + 1 =>
                 /\ layer' = layer
                 /\ next < Meta_points(meta, layer).end]_vars

\* An insertion of a lower layer is due while a row of a layer above differs
\* from the first M slots of the layer-0 row of the same PointId.
C32_Witness ==
    /\ InsertDue
    /\ \E l \in Layers : \E p \in LayerPids(l) :
           /\ l > layer
           /\ RowEntries(l, p) # {}
           /\ Row(neighbors, Meta_layer(meta, l), p) # SubSeq(Row(neighbors, ZeroView, p), 1, M)

\* The PointId handed to the insertion that comes next.
NextPid == layer_assignments[next].pid

\* C33: when insert(p) begins the layer-0 row of p holds only sentinels and
\* p stands in no row of any layer; the PointIds are handed to insert in
\* the order 1, 2, .., each once, PointId 0 never, and a build that returns
\* has handed over every PointId below n.
C33_FreshRowInsertedOnce ==
    [][pc = "building" =>
          /\ next >= 1
          /\ next' \in {next, next + 1}
          /\ InsertDue =>
                 /\ NextPid = next
                 /\ \A i \in 1..(M * 2) : Row(neighbors, ZeroView, NextPid)[i] = INVALID
                 /\ \A l \in Layers : \A q \in LayerPids(l) : NextPid \notin RowSlots(l, q)
          /\ next' = next + 1 => InsertDue
          /\ pc' = "ready" => next = VecLen(points)]_vars

\* An insertion on a layer below the top is due while rows of layer 0 and of
\* a higher layer hold entries.
C33_Witness ==
    /\ InsertDue
    /\ next >= 3
    /\ \E q \in LayerPids(0) : RowEntries(0, q) # {}
    /\ \E l \in Layers \ {0} : \E q \in LayerPids(l) : RowEntries(l, q) # {}

\* The stride of the rows of the layer l.
StrideOf(l) == IF l = 0 THEN M * 2 ELSE M

\* The sum of total * stride over the layers 0..l of the records m.
RECURSIVE SumRows(_, _)
SumRows(m, l) == IF l < 0 THEN 0 ELSE SumRows(m, l - 1) + m[l].total * StrideOf(l)

\* C34: for n >= 1 and a decay constant in [0, 1) the ranges [start, end) of
\* the records of Meta::new are pairwise disjoint, follow each other from
\* offset 0 and have the size total * stride, the array has the length of
\* their sum, and layers_mut and layer cut the same ranges with the same
\* strides.
C34_MetaLayout ==
    (pc = "building" /\ NumPoints >= 1) =>
        /\ Meta_len(meta) >= 1
        /\ meta[0].start = 0
        /\ meta[0].total = NumPoints
        /\ \A l \in Layers :
               /\ meta[l].end = meta[l].start + meta[l].total * StrideOf(l)
               /\ l > 0 => meta[l].start = meta[l - 1].end
               /\ layers_mut(meta)[l].start = Meta_layer(meta, l).start
               /\ layers_mut(meta)[l].start + layers_mut(meta)[l].len = meta[l].end
               /\ layers_mut(meta)[l].stride = Meta_layer(meta, l).stride
        /\ \A l, k \in Layers :
               l # k => {i \in DOMAIN neighbors : i >= meta[l].start /\ i < meta[l].end}
                            \cap {i \in DOMAIN neighbors : i >= meta[k].start /\ i < meta[k].end}
                        = {}
        /\ VecLen(neighbors) = SumRows(meta, Meta_len(meta) - 1)
        /\ Meta_neighbors(meta) = VecLen(neighbors)

\* Meta::new has laid out three layers or more.
C34_Witness ==
    /\ pc = "building"
    /\ Meta_len(meta) >= 3
    /\ meta[1].total >= 2

\* No sentinel of the row is followed by a valid entry.
ValidPrefix(row) ==
    \A i \in 1..(Len(row) - 1) : ~is_valid(row[i]) => ~is_valid(row[i + 1])

\* The first 2M of the items, followed by sentinels up to 2M slots.
Padded(items) ==
    [i \in 1..(M * 2) |-> IF i <= Len(items) THEN items[i] ELSE INVALID]

\* The sequences of up to 2M + 1 stored PointIds.
PidSeqs == UNION {[1..k -> DOMAIN storage] : k \in 0..(M * 2 + 1)}

\* C35: during and after construction the valid PointIds of every layer-0
\* row form a prefix, and ZeroNode::rewrite(iter) leaves in a row the first
\* 2M items of iter followed only by sentinels: for the selections the link
\* loop writes, and for every sequence of PointIds.
C35_ValidPrefixRows ==
    pc \in {"building", "blocked", "ready"} =>
        /\ \A p \in DOMAIN storage :
               /\ ValidPrefix(Row(neighbors, ZeroView, p))
               /\ \A iter \in PidSeqs :
                      rewrite(Row(neighbors, ZeroView, p), iter) = Padded(iter)
        /\ (InsertDue /\ builder.heuristic.some /\ ~builder.heuristic.extend_candidates) =>
               \A i \in 1..Len(NextFound) :
                   rewrite(Row(neighbors, ZeroView, NextFound[i].pid),
                           Pids(LinkSelection(i).nearest))
                       = Padded(Pids(LinkSelection(i).nearest))

\* A link of the insertion that comes next rewrites a full row with fewer
\* PointIds than it holds.
C35_Witness ==
    /\ InsertDue
    /\ builder.heuristic.some
    /\ ~builder.heuristic.extend_candidates
    /\ \E i \in 1..Len(NextFound) :
           /\ is_valid(Row(neighbors, ZeroView, NextFound[i].pid)[M * 2])
           /\ Len(LinkSelection(i).nearest) < M * 2

C37_UpperVisitsInLayer ==
    /\ (pc = "ready" /\ NumPoints >= 1) =>
           \A point \in Coords :
               LET returns == QueryLayerSearches(point)
               IN  \A k \in 1..Len(returns) :
                       descending(meta)[k] > 0 =>
                           returns[k].visited \subseteq LayerPids(descending(meta)[k])
    /\ InsertDue =>
           LET returns == InsertLayerSearches
           IN  \A k \in 1..Len(returns) :
                   descending(meta)[k] > layer =>
                       returns[k].visited \subseteq LayerPids(descending(meta)[k])
    /\ pc \in {"building", "blocked", "ready"} =>
           \A l \in Layers \ {0} : \A p \in LayerPids(l) : RowEntries(l, p) \subseteq LayerPids(l)

\* A query or an insertion searches a higher layer that holds fewer points
\* than the index and visits more than the enter point there.
C37_Witness ==
    /\ pc = "ready"
    /\ \E point \in Coords :
           LET returns == QueryLayerSearches(point)
           IN  \E k \in 1..Len(returns) :
                   /\ descending(meta)[k] > 0
                   /\ meta[descending(meta)[k]].total < NumPoints
                   /\ Cardinality(returns[k].visited) >= 2

\* push never ran into its unreachable!() arm on the scratch s, and every
\* PointId of its nearest is in its visited.
NeverUnreachable(s) ==
    /\ ~s.unreachable
    /\ Elems(Pids(s.nearest)) \subseteq s.visited

\* The scratches at rest: the caller's, those of the pool and those the
\* threads of the build work on.
Scratches ==
    {search}
        \cup UNION {{pool[i].search, pool[i].insertion} : i \in 1..Len(pool)}
        \cup UNION {{workers[w].search, workers[w].insertion} : w \in Workers}

\* C38: the unreachable!() arm of push is never executed: in the calls made
\* by the build and by a search no candidate equal to one in nearest is
\* pushed, since every PointId of nearest is in visited when push is called.
C38_PushNeverUnreachable ==
    /\ \A s \in Scratches : NeverUnreachable(s)
    /\ InsertDue =>
           LET r == insert(NextPid, layer, pool_pop(pool).pair, meta, neighbors, storage, builder)
           IN  /\ NeverUnreachable(r.search)
               /\ ~r.insertion.unreachable
               /\ \A k \in 1..Len(InsertLayerSearches) :
                      NeverUnreachable(InsertLayerSearches[k])
    /\ (pc = "ready" /\ NumPoints >= 1) =>
           \A point \in Coords :
               \A k \in 1..Len(QueryLayerSearches(point)) :
                   NeverUnreachable(QueryLayerSearches(point)[k])

\* A query on an index of two layers has met in a row of layer 0 the enter
\* point it brought down from the layer above.
C38_Witness ==
    /\ Searched
    /\ Meta_len(meta) >= 2
    /\ Cardinality(search.visited) >= 2
    /\ Len(search.nearest) >= 2
    /\ \E p \in search.visited \ {0} : 0 \in RowEntries(0, p)

\* The candidate c comes before the candidate d in the order by distance,
\* then by PointId.
Before(c, d) == cmp(c, d) = -1

\* The scratch s, as the search of the higher layer l for point returns,
\* holds one result, and no PointId among the first M entries of the row of
\* that result in l is closer to point than the result itself.
HandsDownLocalMinimum(s, l, point) ==
    /\ Len(s.nearest) = 1
    /\ \A x \in Elems(Take(nearest_iter(neighbors, Meta_layer(meta, l), s.nearest[1].pid), M)) :
           ~Before(Candidate(distance(point, storage[x]), x), s.nearest[1])

\* C39: during a query each higher layer hands exactly one enter point to
\* the layer below, and none of the first M entries of the row of that
\* point in that layer is strictly closer to the query, in the order by
\* (distance, PointId), than the point itself.
C39_DescentHandsLocalMinimum ==
    (pc = "ready" /\ NumPoints >= 1) =>
        \A point \in Coords :
            LET returns == QueryLayerSearches(point)
            IN  \A k \in 1..Len(returns) :
                    descending(meta)[k] > 0 =>
                        /\ HandsDownLocalMinimum(returns[k], descending(meta)[k], point)
                        /\ cull(returns[k]).candidates = returns[k].nearest
                        /\ Len(cull(returns[k]).candidates) = 1

====
